---- MODULE Spec2Model ----
(***************************************************************************)
(* post2image: the HTTP request handler (requestHandler.py), its marker    *)
(* file tmp/post.html that serialises access to the headless browser, and  *)
(* the card and image stores.                                              *)
(*                                                                         *)
(* Strings are sequences of one-character strings, so that substring       *)
(* search, prefix tests, lower-casing and regular-expression matching are  *)
(* computed the way the Python code computes them.                         *)
(***************************************************************************)
EXTENDS Integers, Sequences, FiniteSets, TLC

(***************************************************************************)
(* Bounds of the model                                                     *)
(***************************************************************************)
\* number of handler threads of the ThreadingHTTPServer that run concurrently
NumThreads == 2
\* number of requests accepted in one behaviour
MaxRequests == 3
\* granularity of the clock, in seconds
TickSecs == 2

(***************************************************************************)
(* Program constants                                                       *)
(***************************************************************************)
\* time.sleep(2.0) in _write_html_to_tmp_file
SleepSecs == 2
\* time.time() - start > 20.0 in _write_html_to_tmp_file
TimeoutSecs == 20

(***************************************************************************)
(* String helpers (Python str operations)                                  *)
(***************************************************************************)
\* sub in s
Contains(s, sub) ==
    \E i \in 1..(Len(s) - Len(sub) + 1) : SubSeq(s, i, i + Len(sub) - 1) = sub

\* s.startswith(pre)
StartsWith(s, pre) ==
    Len(s) >= Len(pre) /\ SubSeq(s, 1, Len(pre)) = pre

UpperChars == <<"A","B","C","D","E","F","G","H","I","J","K","L","M",
                "N","O","P","Q","R","S","T","U","V","W","X","Y","Z">>
LowerChars == <<"a","b","c","d","e","f","g","h","i","j","k","l","m",
                "n","o","p","q","r","s","t","u","v","w","x","y","z">>

LowerChar(c) ==
    IF \E i \in 1..26 : UpperChars[i] = c
    THEN LowerChars[CHOOSE i \in 1..26 : UpperChars[i] = c]
    ELSE c

\* s.lower()
Lower(s) == [i \in 1..Len(s) |-> LowerChar(s[i])]

\* \S of the regular expressions
NonSpace(c) == c # " "

\* urlparse(p).path for a request target that starts with a single "/":
\* everything before the first "?" or "#"
UrlPath(p) ==
    LET cut == {i \in 1..Len(p) : p[i] = "?" \/ p[i] = "#"}
    IN  IF cut = {} THEN p
        ELSE SubSeq(p, 1, (CHOOSE i \in cut : \A j \in cut : i <= j) - 1)

\* s.find(c, start): the first index (from 0) at or after start, or -1
PyFind(s, c, start) ==
    LET hits == {i \in start..(Len(s) - 1) : s[i + 1] = c}
    IN  IF hits = {} THEN 0 - 1 ELSE CHOOSE i \in hits : \A j \in hits : i <= j

\* s[a:b] for a >= 0; a negative b counts from the end
PySlice(s, a, b) ==
    LET stop == IF b < 0 THEN Len(s) + b ELSE IF b > Len(s) THEN Len(s) ELSE b
    IN  IF stop <= a THEN <<>> ELSE SubSeq(s, a + 1, stop)

\* What f.read() returns for a file opened with open(filename, "r"): the
\* default newline mode turns "\r\n" and "\r" into "\n"
RECURSIVE ReadText(_)
ReadText(s) ==
    IF s = <<>> THEN <<>>
    ELSE IF s[1] = "\r"
         THEN <<"\n">> \o ReadText(IF Len(s) >= 2 /\ s[2] = "\n"
                                   THEN SubSeq(s, 3, Len(s)) ELSE Tail(s))
         ELSE <<s[1]>> \o ReadText(Tail(s))

\* What f.write(s) stores for a file opened with open(filename, "w"): "\n"
\* becomes os.linesep, which is "\n" itself on the POSIX hosts of the server
WriteText(s) == s

(***************************************************************************)
(* Literals of the program                                                 *)
(***************************************************************************)
S_status == <<"/","s","t","a","t","u","s","/">>
S_profile == <<"/","p","r","o","f","i","l","e","/">>
S_post == <<"/","p","o","s","t","/">>
S_at == <<"/","@">>
S_opengraph == <<"O","p","e","n","G","r","a","p","h">>
S_cardyb == <<"B","l","u","e","s","k","y"," ","C","a","r","d","y","b">>
S_https == <<"h","t","t","p","s",":","/","/">>
S_x_com == <<"x",".","c","o","m">>
S_bsky_app == <<"b","s","k","y",".","a","p","p">>
S_threads_net == <<"t","h","r","e","a","d","s",".","n","e","t">>
S_png == <<".","p","n","g">>
S_card_html == <<"_","c","a","r","d",".","h","t","m","l">>
S_http == <<"h","t","t","p",":","/","/">>
S_posted_by == <<" ","-"," ","P","o","s","t","e","d"," ","b","y"," ","@">>
S_None == <<"N","o","n","e">>
\* config_values['domain'] (the fallback of init_config)
domain == <<"x","r","o","s","s","p","o","s","t",".","c","o","m">>
_images_directory == <<"i","m","a","g","e","s">>
_cache_directory == <<"c","a","c","h","e">>

(***************************************************************************)
(* Inputs: request targets and User-Agent headers                          *)
(***************************************************************************)
P_Xitter == <<"/","a","l","/","s","t","a","t","u","s","/","1">>
P_XitterQuery == <<"/","a","l","/","s","t","a","t","u","s","/","1","?","s","=","2">>
P_Bluesky == <<"/","p","r","o","f","i","l","e","/","b","o","/","p","o","s","t","/","2">>
P_Threads == <<"/","@","c","y","/","p","o","s","t","/","3">>
P_NotAPost == <<"/","n","o","t","-","a","-","p","o","s","t">>
P_BadStatus == <<"/","a","l","/","s","t","a","t","u","s","/">>
\* /images/<stable_hash_str("/al/status/1")>.png
P_ImageXitter == <<"/","i","m","a","g","e","s","/","A","9","7","8","3","4","1","3","E","A","6","0",".","p","n","g">>
P_ImageMissing == <<"/","i","m","a","g","e","s","/","Z","Z",".","p","n","g">>

Paths == {P_Xitter, P_XitterQuery, P_Bluesky, P_Threads, P_NotAPost,
          P_BadStatus, P_ImageXitter, P_ImageMissing}

UA_Browser == <<"M","o","z","i","l","l","a","/","5",".","0">>
UA_OpenGraph == <<"O","p","e","n","G","r","a","p","h",".","i","o","/","1",".","1">>
UA_UpperOG == <<"x"," ","O","P","E","N","G","R","A","P","H"," ","y">>
UA_Cardyb == <<"B","l","u","e","s","k","y"," ","C","a","r","d","y","b","/","1",".","1">>
UA_NearMiss == <<"O","p","e","n","G","r","a","p"," ","B","l","u","e","s","k","y"," ","C","a","r","d","y">>

\* self.headers['User-Agent'] is None when the request carries no such header
Header(v) == [present |-> TRUE, value |-> v]
NoHeader == [present |-> FALSE, value |-> <<>>]

UserAgents == {NoHeader, Header(<<>>), Header(UA_Browser), Header(UA_OpenGraph),
               Header(UA_UpperOG), Header(UA_Cardyb), Header(UA_NearMiss)}

ClientIps == {"10.0.0.7"}

(***************************************************************************)
(* stable_hash_str: the first 12 hex digits, upper-cased, of the MD5 of    *)
(* the string; tabulated on the paths of the model.                        *)
(***************************************************************************)
stable_hash_str(key) ==
    CASE key = P_Xitter    -> <<"A","9","7","8","3","4","1","3","E","A","6","0">>
      [] key = P_Bluesky   -> <<"B","2","1","E","F","7","D","3","C","C","E","2">>
      [] key = P_Threads   -> <<"C","1","4","D","A","E","A","F","3","6","5","5">>
      [] key = P_NotAPost  -> <<"7","7","C","5","B","4","F","2","1","9","5","2">>
      [] key = P_BadStatus -> <<"C","5","7","9","F","A","6","7","5","A","2","1">>

_image_file_name(path) == _images_directory \o <<"/">> \o stable_hash_str(path) \o S_png

_get_cache_filename(path) == _cache_directory \o <<"/">> \o stable_hash_str(path) \o S_card_html

(***************************************************************************)
(* Path classification and parsing                                         *)
(***************************************************************************)
_get_post_type(path) ==
    IF Contains(path, S_status) THEN "XITTER"
    ELSE IF Contains(path, S_profile) /\ Contains(path, S_post) THEN "BLUESKY"
    ELSE IF Contains(path, S_at) /\ Contains(path, S_post) THEN "THREADS"
    ELSE "UNKNOWN"

\* The platform regular expressions all have the shape
\*   <prefix>(\S+)<sep>(<id class>+)
\* and are applied with pattern.match, i.e. anchored at the start only.
twitter_post_regex == [prefix |-> <<"/">>, sep |-> S_status, idStop |-> {" "}]
bluesky_post_regex == [prefix |-> S_profile, sep |-> S_post, idStop |-> {" "}]
threads_post_regex == [prefix |-> <<"/">>, sep |-> S_post, idStop |-> {"?"}]

\* positions at which <sep> can start in a match of the regex
SepPositions(path, regex) ==
    {k \in (Len(regex.prefix) + 2)..Len(path) :
        /\ StartsWith(path, regex.prefix)
        /\ \A j \in (Len(regex.prefix) + 1)..(k - 1) : NonSpace(path[j])
        /\ k + Len(regex.sep) <= Len(path)
        /\ SubSeq(path, k, k + Len(regex.sep) - 1) = regex.sep
        /\ path[k + Len(regex.sep)] \notin regex.idStop}

\* pattern.match(path).groups(): raises AttributeError when there is no match;
\* the first group is greedy, so <sep> is taken at its last possible position
_parse_path(path, regex) ==
    LET ks == SepPositions(path, regex)
    IN  IF ks = {} THEN [raised |-> TRUE, user_name |-> <<>>, post_id |-> <<>>]
        ELSE LET k == CHOOSE i \in ks : \A j \in ks : j <= i
                 first == k + Len(regex.sep)
                 stops == {i \in first..Len(path) : path[i] \in regex.idStop}
                 last == IF stops = {} THEN Len(path)
                         ELSE (CHOOSE i \in stops : \A j \in stops : i <= j) - 1
             IN  [raised |-> FALSE,
                  user_name |-> SubSeq(path, Len(regex.prefix) + 1, k - 1),
                  post_id |-> SubSeq(path, first, last)]

PlatformRegex(post_type) ==
    CASE post_type = "XITTER" -> twitter_post_regex
      [] post_type = "BLUESKY" -> bluesky_post_regex
      [] post_type = "THREADS" -> threads_post_regex

(***************************************************************************)
(* User-Agent classification                                               *)
(***************************************************************************)
\* Returns whether the call raised and, when it did not, its value.
\* With no User-Agent header user_agent is None, the lower() is skipped and
\* the "in" test raises TypeError.
_is_open_graph_crawler(header) ==
    IF ~header.present THEN [raised |-> TRUE, value |-> FALSE]
    ELSE LET user_agent == IF header.value # <<>> THEN Lower(header.value)
                           ELSE header.value
         IN  [raised |-> FALSE,
              value |-> \/ Contains(user_agent, Lower(S_opengraph))
                        \/ Contains(user_agent, Lower(S_cardyb))]

(***************************************************************************)
(* Redirect                                                                *)
(***************************************************************************)
RedirectDomain(post_type) ==
    CASE post_type = "XITTER" -> S_x_com
      [] post_type = "BLUESKY" -> S_bsky_app
      [] post_type = "THREADS" -> S_threads_net
      [] OTHER -> S_x_com

\* mutant: the redirect built from the parsed path instead of self.path
RedirectUrl_Stripped(self_path) ==
    S_https \o RedirectDomain(_get_post_type(UrlPath(self_path))) \o UrlPath(self_path)

\* new_url of _return_redirect_to_original_post
RedirectUrl(self_path) ==
    S_https \o RedirectDomain(_get_post_type(UrlPath(self_path))) \o self_path

(***************************************************************************)
(* State                                                                   *)
(***************************************************************************)
VARIABLES
    pc,         \* position of each handler thread in do_GET
    req,        \* the request each thread is handling
    nreq,       \* number of requests accepted so far
    firstTime,  \* the global _first_time
    tmpFile,    \* tmp/post.html: the marker and the document the browser loads
    markerAge,  \* seconds since tmp/post.html was last created or overwritten
    waited,     \* time.time() - start of each thread in _write_html_to_tmp_file
    sleepLeft,  \* remaining seconds of each thread's time.sleep(2.0)
    html,       \* local html of _return_open_graph_card
    shot,       \* locals screenshot_image, shrinkage, likes_str, post_text
    cards,      \* the files cache/<hash>_card.html
    images,     \* the files images/<hash>.png
    badLog,     \* lines of bad_requests.log
    resp,       \* responses sent for the request of each thread
    forced,     \* some waiter has taken the open(..., "w") branch
    storage,    \* whether the directories cache/ and images/ can be read and written
    browser,    \* the global _browser: the page it has loaded
    pipe        \* locals of each thread in browser.get_screenshot_for_html

vars == <<pc, req, nreq, firstTime, tmpFile, markerAge, waited, sleepLeft,
          html, shot, cards, images, badLog, resp, forced, storage, browser, pipe>>

Threads == 1..NumThreads

NoReq == [id |-> 0, path |-> <<>>, headers |-> NoHeader, ip |-> ""]
NoHtml == [platform |-> "none", user_name |-> <<>>, post_id |-> <<>>]
NoTmp == [exists |-> FALSE, owner |-> 0, html |-> NoHtml]
\* an image file: the post it shows and its size
NoImage == [exists |-> FALSE, of |-> NoHtml, width |-> 0, height |-> 0]
\* what get_screenshot_for_html returned to _return_open_graph_card
NoShot == [image |-> NoImage, shrinkage |-> [num |-> 0, den |-> 1],
           likes_str |-> <<>>, post_text |-> <<>>]
\* the empty string as a card document
NoCardHtml == [path |-> <<>>, title |-> <<>>, description |-> <<>>, image_url |-> <<>>,
               width |-> 0, height |-> 0, of |-> NoHtml]
\* a card file: its content and time.time() - os.path.getmtime(file)
NoCard == [exists |-> FALSE, age |-> 0, html |-> NoCardHtml]

\* the browser before any page has been loaded.  Of a loaded page: the
\* document it was loaded from and what the locators of browser.py,
\* twitter.py, bluesky.py and threads.py find in it
\*   iframe  an <iframe> element is found
\*   div     the first <div> of the frame: "none", "hidden" or "shown"
\*   img     the <img> elements of the frame: "none", "hidden" (one is never
\*           displayed), "loading" (one is not complete) or "complete"
\*   likes   the element holding the number of likes is found
\*   text    the element holding the text of the post is found
\*   logo    the link around the X logo and, once replaced, the image
\*           replacement_logo: "none", "hidden", "loading" or "complete"
\*   parts   the elements that delimit the crop rectangle are found
NoPage == [loaded |-> FALSE, doc |-> NoHtml, iframe |-> FALSE, div |-> "none",
           img |-> "none", likes |-> FALSE, text |-> FALSE, logo |-> "none",
           parts |-> FALSE]
\* the locals of get_screenshot_for_html before the call
NoPipe == [likes_str |-> <<>>, post_text |-> <<>>, cropped |-> [w |-> 0, h |-> 0],
           screenshot |-> [w |-> 0, h |-> 0],
           rect |-> [left |-> 0, top |-> 0, right |-> 0, bottom |-> 0]]

\* the paths for which _get_html_for_post can return a snippet
PostPaths == {p \in {UrlPath(q) : q \in Paths} :
                /\ _get_post_type(p) # "UNKNOWN"
                /\ ~_parse_path(p, PlatformRegex(_get_post_type(p))).raised}
CardFiles == {_get_cache_filename(p) : p \in PostPaths}
ImageFiles == {_image_file_name(p) : p \in PostPaths}

Init ==
    /\ pc = [r \in Threads |-> "idle"]
    /\ req = [r \in Threads |-> NoReq]
    /\ nreq = 0
    /\ firstTime = TRUE
    \* a marker may have been left behind by an earlier run of the program
    /\ tmpFile \in {NoTmp, [exists |-> TRUE, owner |-> 0, html |-> NoHtml]}
    /\ markerAge = 0
    /\ waited = [r \in Threads |-> 0]
    /\ sleepLeft = [r \in Threads |-> 0]
    /\ html = [r \in Threads |-> NoHtml]
    /\ shot = [r \in Threads |-> NoShot]
    /\ cards = [f \in CardFiles |-> NoCard]
    /\ images = [f \in ImageFiles |-> NoImage]
    /\ badLog = <<>>
    /\ resp = [r \in Threads |-> <<>>]
    /\ forced = FALSE
    /\ storage = "ok"
    /\ browser = NoPage
    /\ pipe = [r \in Threads |-> NoPipe]

(***************************************************************************)
(* Responses                                                               *)
(***************************************************************************)
Response(status, ctype, location, kind, body) ==
    [status |-> status, ctype |-> ctype, location |-> location, kind |-> kind, body |-> body]

\* mutant: the message sent the way _text_response sends it
ErrorResponse_AsText(msg) == Response(200, "text/plain", <<>>, "error", msg)

\* _error_response
ErrorResponse(msg) == Response(404, "text/plain", <<>>, "error", msg)
\* _html_response
HtmlResponse(card) == Response(200, "html", <<>>, "card", card)
\* the response of _return_image
ImageResponse(image) == Response(200, "image/png", <<>>, "image", image)
\* the response of _return_redirect_to_original_post
RedirectResponse(url) == Response(302, "", url, "redirect", "Redirecting")

Send(r, response) == resp' = [resp EXCEPT ![r] = Append(@, response)]

(***************************************************************************)
(* The card cache                                                          *)
(***************************************************************************)
\* config_values['allowable_cache_file_age_hours'] (the fallback of init_config)
allowable_cache_file_age_hours == 24

\* mutant: the age test with <= in place of <
CardIsFresh_Inclusive(current_time, card_modified_time) ==
    current_time <= card_modified_time + allowable_cache_file_age_hours * 60 * 60

\* current_time < card_modified_time + allowable_hours * 60 * 60
CardIsFresh(current_time, card_modified_time) ==
    current_time < card_modified_time + allowable_cache_file_age_hours * 60 * 60

\* the text of a card document as stored by f.write and as returned by f.read
WriteDoc(doc) ==
    [doc EXCEPT !.path = WriteText(@), !.title = WriteText(@),
                !.description = WriteText(@), !.image_url = WriteText(@)]

ReadDoc(content) ==
    [content EXCEPT !.path = ReadText(@), !.title = ReadText(@),
                    !.description = ReadText(@), !.image_url = ReadText(@)]

CardFileOf(files, filename) ==
    IF filename \in DOMAIN files THEN files[filename] ELSE NoCard

\* mutant: a lookup that never finds the file
_get_card_from_cache_Miss(files, path) == [none |-> TRUE, html |-> NoCardHtml]

\* _get_card_from_cache: the document read, or None when there is no file
_get_card_from_cache(files, path) ==
    LET file == CardFileOf(files, _get_cache_filename(path))
    IN  IF file.exists THEN [none |-> FALSE, html |-> ReadDoc(file.html)]
        ELSE [none |-> TRUE, html |-> NoCardHtml]

\* _put_card_into_cache, f = open(filename, "w"): the file exists, empty
OpenCardForWrite(files, path) ==
    [files EXCEPT ![_get_cache_filename(path)] =
        [exists |-> TRUE, age |-> 0, html |-> NoCardHtml]]

\* mutant: the file closed without the document having been written
WriteCard_Dropped(files, path, card_html) == files

\* _put_card_into_cache, f.write(html); f.close()
WriteCard(files, path, card_html) ==
    [files EXCEPT ![_get_cache_filename(path)] =
        [exists |-> TRUE, age |-> 0, html |-> WriteDoc(card_html)]]

\* _put_card_into_cache as a whole
_put_card_into_cache(files, path, card_html) ==
    WriteCard(OpenCardForWrite(files, path), path, card_html)

\* "if cached_card_html:" and the test of the file's age in
\* _return_open_graph_card
IsCacheHit(files, path) ==
    LET cached_card_html == _get_card_from_cache(files, path)
    IN  /\ ~cached_card_html.none
        /\ cached_card_html.html # NoCardHtml
        /\ CardIsFresh(CardFileOf(files, _get_cache_filename(path)).age, 0)

(***************************************************************************)
(* The render pipeline as seen by _return_open_graph_card                  *)
(***************************************************************************)
\* sizes of the cropped screenshot, texts and likes labels found in a post
CroppedSizes == {[w |-> 600, h |-> 400], [w |-> 600, h |-> 700], [w |-> 600, h |-> 800]}
PostTexts == {<<"h","i">>}
LikesStrs == {<<"5">>}

\* Image.thumbnail((x, y)) of an image of size w x h: the size the image
\* has afterwards (preserve_aspect_ratio and round_aspect of Pillow)
thumbnail(w, h, x, y) ==
    LET Abs(i) == IF i < 0 THEN 0 - i ELSE i
        Max(i, j) == IF i >= j THEN i ELSE j
    IN
    IF x >= w /\ y >= h THEN [w |-> w, h |-> h]
    ELSE IF x * h >= w * y
    THEN \* x = round_aspect(y * aspect, key = abs(aspect - n / y))
         LET lo == (y * w) \div h
             hi == IF (y * w) % h = 0 THEN lo ELSE lo + 1
             best == IF Abs(w * y - lo * h) <= Abs(w * y - hi * h) THEN lo ELSE hi
         IN  [w |-> Max(best, 1), h |-> y]
    ELSE \* y = round_aspect(x / aspect, key = 0 if n == 0 else abs(aspect - x / n))
         LET lo == (x * h) \div w
             hi == IF (x * h) % w = 0 THEN lo ELSE lo + 1
             best == IF lo = 0 \/ Abs(w * lo - x * h) * hi <= Abs(w * hi - x * h) * lo
                     THEN lo ELSE hi
         IN  [w |-> x, h |-> Max(best, 1)]

\* the width and height of the canvas that _get_properly_sized_image asks for
MaxCanvasW == 1200
MaxCanvasH == 630

\* _get_properly_sized_image: the size of the canvas and the size of img
\* when it returns.  desired_w or desired_h is a float unless the canvas is
\* capped at 1200 x 630, and Image.new raises TypeError for a size that is
\* not made of integers.  "if img_w > desired_w or img_h > desired_h: ...
\* img.thumbnail(...)" changes img in place, and img is the caller's
\* cropped_screenshot.
_get_properly_sized_image(img_w, img_h) ==
    LET too_tall == 10 * img_w < 19 * img_h
        \* desired_w > 1200
        capped == IF too_tall THEN 19 * img_h > 10 * MaxCanvasW ELSE img_w > MaxCanvasW
        \* Python's round(n / d) for positive integers: to the nearest
        \* integer, a tie to the even one
        round(n, d) ==
            LET q == n \div d
                rem == n % d
            IN  IF 2 * rem < d THEN q
                ELSE IF 2 * rem > d THEN q + 1
                ELSE IF q % 2 = 0 THEN q ELSE q + 1
        \* img after the shrink for the canvas capped at 1200 x 630
        img == IF img_w > MaxCanvasW \/ img_h > MaxCanvasH
               THEN \* shrinkage = min(desired_w / img_w, desired_h / img_h)
                    IF MaxCanvasW * img_h <= MaxCanvasH * img_w
                    THEN thumbnail(img_w, img_h, MaxCanvasW, round(MaxCanvasW * img_h, img_w))
                    ELSE thumbnail(img_w, img_h, round(MaxCanvasH * img_w, img_h), MaxCanvasH)
               ELSE [w |-> img_w, h |-> img_h]
    IN  IF capped
        THEN [raised |-> FALSE, width |-> MaxCanvasW, height |-> MaxCanvasH,
              img_w |-> img.w, img_h |-> img.h]
        ELSE [raised |-> TRUE, width |-> 0, height |-> 0, img_w |-> img_w, img_h |-> img_h]

\* get_screenshot_for_html: properly_sized_image and
\* properly_sized_image.height / cropped_screenshot.height, the height of
\* cropped_screenshot read after _get_properly_sized_image has returned
Screenshot(document, cropped, likes_str, post_text) ==
    LET sized == _get_properly_sized_image(cropped.w, cropped.h)
    IN  [image |-> [exists |-> TRUE, of |-> document,
                    width |-> sized.width, height |-> sized.height],
         shrinkage |-> [num |-> sized.height, den |-> sized.img_h],
         likes_str |-> likes_str, post_text |-> post_text]

\* mutant: the description test reversed
ShrunkALot_Reversed(shrinkage) == shrinkage.num * 10 > 8 * shrinkage.den

\* shrinkage < 0.8
ShrunkALot(shrinkage) == shrinkage.num * 10 < 8 * shrinkage.den

\* _get_user
_get_user(path) ==
    IF Contains(path, S_status)
    THEN [none |-> FALSE, value |-> PySlice(path, 1, PyFind(path, "/", 1))]
    ELSE IF Contains(path, S_profile) /\ Contains(path, S_post)
    THEN [none |-> FALSE, value |-> PySlice(path, 10, PyFind(path, "/", 10))]
    ELSE IF Contains(path, S_at) /\ Contains(path, S_post)
    THEN [none |-> FALSE, value |-> PySlice(path, 2, PyFind(path, "/", 2))]
    ELSE [none |-> TRUE, value |-> S_None]

\* mutant: the image URL built from the request target instead of the
\* image file name
ImageUrl_FromPath(path) == S_http \o domain \o path

\* image_url
ImageUrl(path) == S_http \o domain \o <<"/">> \o _image_file_name(path)

\* title, description and card_html of _return_open_graph_card
ComposeCard(path, result) ==
    LET title == result.likes_str \o S_posted_by \o _get_user(path).value
    IN  [path |-> path,
         title |-> IF ShrunkALot(result.shrinkage) THEN title \o <<":">> ELSE title,
         description |-> IF ShrunkALot(result.shrinkage) THEN result.post_text ELSE <<>>,
         image_url |-> ImageUrl(path),
         width |-> result.image.width,
         height |-> result.image.height,
         of |-> result.image.of]

(***************************************************************************)
(* The marker file                                                         *)
(***************************************************************************)
\* os.remove(tmp/post.html)
os_remove(file) ==
    IF file.exists THEN [file |-> NoTmp, exc |-> "none"]
    ELSE [file |-> file, exc |-> "FileNotFoundError"]

\* mutant: _erase_tmp_file leaving the file in place
_erase_tmp_file_Keeps(file) == [file |-> file, exc |-> "none"]

\* mutant: _erase_tmp_file without its try/except
_erase_tmp_file_NoCatch(file) == os_remove(file)

\* _erase_tmp_file: the file afterwards and the exception that leaves the call
_erase_tmp_file(file) ==
    LET removed == os_remove(file)
    IN  IF removed.exc = "FileNotFoundError" THEN [file |-> removed.file, exc |-> "none"]
        ELSE removed

\* mutant: the operands of the subtraction swapped (start - time.time())
ForceDue_Swapped(elapsed) == 0 - elapsed > TimeoutSecs

\* time.time() - start > 20.0
ForceDue(elapsed) == elapsed > TimeoutSecs

\* f.write(html); f.close() of the request with this id
Written(id, h) == [exists |-> TRUE, owner |-> id, html |-> h]

(***************************************************************************)
(* do_GET                                                                  *)
(***************************************************************************)
Goto(r, label) == pc' = [pc EXCEPT ![r] = label]

\* A request arrives on an idle thread; do_GET reads _first_time
Start(r, paths, agents) ==
    /\ pc[r] = "idle"
    /\ nreq < MaxRequests
    /\ \E p \in paths, h \in agents, ip \in ClientIps :
          req' = [req EXCEPT ![r] = [id |-> nreq + 1, path |-> p, headers |-> h, ip |-> ip]]
    /\ nreq' = nreq + 1
    /\ Goto(r, IF firstTime THEN "init" ELSE "route")
    /\ UNCHANGED <<firstTime, tmpFile, markerAge, waited, sleepLeft, html, shot,
                   cards, images, badLog, resp, forced,
                   storage, browser, pipe>>

\* self._erase_tmp_file(); _first_time = False
FirstTimeInit(r) ==
    /\ pc[r] = "init"
    /\ LET erased == _erase_tmp_file(tmpFile)
       IN  /\ tmpFile' = erased.file
           /\ markerAge' = IF erased.file.exists THEN markerAge ELSE 0
           /\ IF erased.exc = "none"
              THEN firstTime' = FALSE /\ Goto(r, "route")
              ELSE UNCHANGED firstTime /\ Goto(r, "raised")
    /\ UNCHANGED <<req, nreq, waited, sleepLeft, html, shot, cards, images,
                   badLog, resp, forced,
                   storage, browser, pipe>>

IsImageRequest(path) == StartsWith(path, <<"/">> \o _images_directory)

\* _return_image(self.path[1:]): Image.open raises FileNotFoundError, which
\* nothing catches, when there is no such file
ReturnImage(r) ==
    /\ pc[r] = "route"
    /\ IsImageRequest(req[r].path)
    /\ LET image_local_file_name == Tail(req[r].path)
           image == IF image_local_file_name \in DOMAIN images
                    THEN images[image_local_file_name] ELSE NoImage
       IN  IF image.exists
           THEN Send(r, ImageResponse(image)) /\ Goto(r, "done")
           ELSE UNCHANGED resp /\ Goto(r, "raised")
    /\ UNCHANGED <<req, nreq, firstTime, tmpFile, markerAge, waited, sleepLeft,
                   html, shot, cards, images, badLog, forced,
                   storage, browser, pipe>>

\* if self._is_open_graph_crawler(): ... else: self._return_redirect_to_original_post()
Classify(r) ==
    /\ pc[r] = "route"
    /\ ~IsImageRequest(req[r].path)
    /\ LET crawler == _is_open_graph_crawler(req[r].headers)
       IN  IF crawler.raised THEN UNCHANGED resp /\ Goto(r, "raised")
           ELSE IF crawler.value THEN UNCHANGED resp /\ Goto(r, "card")
           ELSE Send(r, RedirectResponse(RedirectUrl(req[r].path))) /\ Goto(r, "done")
    /\ UNCHANGED <<req, nreq, firstTime, tmpFile, markerAge, waited, sleepLeft,
                   html, shot, cards, images, badLog, forced,
                   storage, browser, pipe>>

(***************************************************************************)
(* _return_open_graph_card                                                 *)
(***************************************************************************)
\* open() of a file under cache/ or images/ raises an OSError other than
\* FileNotFoundError (PermissionError) while the directories are not accessible
StorageError(state) == state = "denied"

\* _get_card_from_cache and the test of the file's age; an exception other
\* than FileNotFoundError leaves _get_card_from_cache and is caught by the
\* "except:" of _return_open_graph_card
CacheLookup(r) ==
    /\ pc[r] = "card"
    /\ LET path == UrlPath(req[r].path)
       IN  IF StorageError(storage)
           THEN /\ Send(r, ErrorResponse("Exception for request"))
                /\ Goto(r, "done")
           ELSE IF IsCacheHit(cards, path)
           THEN /\ Send(r, HtmlResponse(_get_card_from_cache(cards, path).html))
                /\ Goto(r, "done")
           ELSE UNCHANGED resp /\ Goto(r, "fetch")
    /\ UNCHANGED <<req, nreq, firstTime, tmpFile, markerAge, waited, sleepLeft,
                   html, shot, cards, images, badLog, forced,
                   storage, browser, pipe>>

\* the line f'{self.client_address[0]} : {msg}'; "by" records the request
\* that wrote it
BadRequestLine(r) ==
    [ip |-> req[r].ip, msg |-> "Not a post that can be handled", path |-> req[r].path,
     by |-> req[r].id]

\* the document that get_twitter_post_html, get_bluesky_post_html or
\* get_threads_post_html returns for (user_name, post_id)
Snippet(post_type, parsed) ==
    [platform |-> post_type, user_name |-> parsed.user_name, post_id |-> parsed.post_id]

\* the snippet that the embed service returns for the post at path
SnippetFor(path) ==
    Snippet(_get_post_type(path), _parse_path(path, PlatformRegex(_get_post_type(path))))

\* what the call of the platform's embed service does: it returns a snippet,
\* returns None or an empty string, or raises
FetchOutcomes == {"html", "none", "raise"}

\* mutant: the test "if not html" never taken
NotHtml_Never(outcome) == FALSE

\* "if not html:" for the value that _get_html_for_post returned
NotHtml(outcome) == outcome = "none"

\* _get_post_type, _get_html_for_post and the test "if not html"
FetchSnippet(r) ==
    /\ pc[r] = "fetch"
    /\ LET path == UrlPath(req[r].path)
           post_type == _get_post_type(path)
       IN  IF post_type = "UNKNOWN"
           THEN /\ badLog' = Append(badLog, BadRequestLine(r))
                /\ Send(r, ErrorResponse("Could not get html"))
                /\ Goto(r, "done")
                /\ UNCHANGED <<html, waited>>
           ELSE LET parsed == _parse_path(path, PlatformRegex(post_type))
                IN  IF parsed.raised
                    THEN /\ Send(r, ErrorResponse("Exception for request"))
                         /\ Goto(r, "done")
                         /\ UNCHANGED <<html, waited, badLog>>
                    ELSE \E outcome \in FetchOutcomes :
                         /\ UNCHANGED badLog
                         /\ IF outcome = "raise"
                            THEN /\ Send(r, ErrorResponse("Exception for request"))
                                 /\ Goto(r, "done")
                                 /\ UNCHANGED <<html, waited>>
                            ELSE IF NotHtml(outcome)
                            THEN /\ Send(r, ErrorResponse("Could not get html"))
                                 /\ Goto(r, "done")
                                 /\ UNCHANGED <<html, waited>>
                            ELSE /\ html' = [html EXCEPT ![r] =
                                                IF outcome = "html"
                                                THEN Snippet(post_type, parsed) ELSE NoHtml]
                                 /\ waited' = [waited EXCEPT ![r] = 0]
                                 /\ Goto(r, "acquire")
                                 /\ UNCHANGED resp
    /\ UNCHANGED <<req, nreq, firstTime, tmpFile, markerAge, sleepLeft, shot,
                   cards, images, forced, storage, browser, pipe>>

\* mutant: the cache looked up again before the marker is created
TryCreate_Rechecks(r) ==
    /\ pc[r] = "acquire"
    /\ IF IsCacheHit(cards, UrlPath(req[r].path))
       THEN /\ Send(r, HtmlResponse(_get_card_from_cache(cards, UrlPath(req[r].path)).html))
            /\ Goto(r, "done")
            /\ UNCHANGED <<tmpFile, markerAge, sleepLeft>>
       ELSE IF ~tmpFile.exists
       THEN /\ tmpFile' = Written(req[r].id, html[r])
            /\ markerAge' = 0
            /\ Goto(r, "render")
            /\ UNCHANGED <<sleepLeft, resp>>
       ELSE /\ sleepLeft' = [sleepLeft EXCEPT ![r] = SleepSecs]
            /\ Goto(r, "sleep")
            /\ UNCHANGED <<tmpFile, markerAge, resp>>
    /\ UNCHANGED <<req, nreq, firstTime, waited, html, shot, cards, images,
                   badLog, forced, storage, browser, pipe>>

\* _write_html_to_tmp_file: f = open(tmp/post.html, "x")
TryCreate(r) ==
    /\ pc[r] = "acquire"
    /\ IF ~tmpFile.exists
       THEN /\ tmpFile' = Written(req[r].id, html[r])
            /\ markerAge' = 0
            /\ Goto(r, "render")
            /\ UNCHANGED sleepLeft
       ELSE /\ sleepLeft' = [sleepLeft EXCEPT ![r] = SleepSecs]
            /\ Goto(r, "sleep")
            /\ UNCHANGED <<tmpFile, markerAge>>
    /\ UNCHANGED <<req, nreq, firstTime, waited, html, shot, cards, images,
                   badLog, resp, forced,
                   storage, browser, pipe>>

\* _write_html_to_tmp_file: the sleep is over;
\* if time.time() - start > 20.0: f = open(tmp/post.html, "w")
Wake(r) ==
    /\ pc[r] = "sleep"
    /\ sleepLeft[r] = 0
    /\ IF ForceDue(waited[r])
       THEN /\ tmpFile' = Written(req[r].id, html[r])
            /\ markerAge' = 0
            /\ forced' = TRUE
            /\ Goto(r, "render")
       ELSE /\ Goto(r, "acquire")
            /\ UNCHANGED <<tmpFile, markerAge, forced>>
    /\ UNCHANGED <<req, nreq, firstTime, waited, sleepLeft, html, shot, cards,
                   images, badLog, resp,
                   storage, browser, pipe>>

\* browser.get_screenshot_for_html(self._temp_file_url(), post_type): it
\* returns the image of the document found in tmp/post.html, or raises
RenderOf(r, sizes) ==
    /\ pc[r] = "render"
    /\ \E outcome \in {"ok", "raise"}, cropped \in sizes,
          likes_str \in LikesStrs, post_text \in PostTexts :
          IF /\ outcome = "ok"
             /\ tmpFile.exists
             /\ ~_get_properly_sized_image(cropped.w, cropped.h).raised
          THEN /\ shot' = [shot EXCEPT ![r] =
                              Screenshot(tmpFile.html, cropped, likes_str, post_text)]
               /\ Goto(r, "erase")
               /\ UNCHANGED resp
          ELSE /\ Send(r, ErrorResponse("Exception for request"))
               /\ Goto(r, "done")
               /\ UNCHANGED shot
    /\ UNCHANGED <<req, nreq, firstTime, tmpFile, markerAge, waited, sleepLeft,
                   html, cards, images, badLog, forced,
                   storage, browser, pipe>>

Render(r) == RenderOf(r, CroppedSizes)

(***************************************************************************)
(* browser.get_screenshot_for_html, step by step                           *)
(***************************************************************************)
\* the pages a snippet can turn into: the full page, in which every locator
\* finds its element at once, and the pages that differ from it in one
\* respect
Pages ==
    LET FullPage == [loaded |-> TRUE, doc |-> NoHtml, iframe |-> TRUE, div |-> "shown",
                     img |-> "complete", likes |-> TRUE, text |-> TRUE,
                     logo |-> "complete", parts |-> TRUE]
    IN
    {FullPage, [FullPage EXCEPT !.iframe = FALSE]}
    \cup {[FullPage EXCEPT !.div = d] : d \in {"none", "hidden"}}
    \cup {[FullPage EXCEPT !.img = i] : i \in {"none", "hidden", "loading"}}
    \cup {[FullPage EXCEPT !.likes = FALSE], [FullPage EXCEPT !.text = FALSE],
          [FullPage EXCEPT !.parts = FALSE]}
    \cup {[FullPage EXCEPT !.logo = l] : l \in {"none", "hidden", "loading"}}

\* the positions of a thread inside get_screenshot_for_html
PipeStages == {"render", "loaded", "imgpoll", "likes", "text", "modify", "logopoll",
               "shoot", "resize"}

\* an exception leaves get_screenshot_for_html: the "except:" of
\* _return_open_graph_card sends the error response
PipeRaise(r) ==
    /\ Send(r, ErrorResponse("Exception for request"))
    /\ Goto(r, "done")

\* a step of get_screenshot_for_html that changes the thread's position only
PipeGoto(r, label) ==
    /\ Goto(r, label)
    /\ UNCHANGED resp

\* _load_url(url): _browser.get(file://.../tmp/post.html)
LoadUrl(r) ==
    /\ pc[r] = "render"
    /\ IF tmpFile.exists
       THEN /\ \E page \in Pages : browser' = [page EXCEPT !.doc = tmpFile.html]
            /\ PipeGoto(r, "loaded")
       ELSE /\ PipeRaise(r)
            /\ UNCHANGED browser
    /\ UNCHANGED <<req, nreq, firstTime, tmpFile, markerAge, waited, sleepLeft,
                   html, shot, cards, images, badLog, forced, storage, pipe>>

\* _wait_till_fully_loaded up to its loop over the images:
\* NoSuchElementException is caught, the TimeoutException of wait.until is not
WaitTillFullyLoaded(r) ==
    /\ pc[r] = "loaded"
    /\ LET label == IF ~browser.iframe THEN "likes"
                    ELSE IF browser.div = "none" THEN "likes"
                    ELSE IF browser.div = "hidden" THEN "raise"
                    ELSE IF browser.img = "none" THEN "likes"
                    ELSE IF browser.img = "hidden" THEN "raise"
                    ELSE "imgpoll"
       IN  IF label = "raise" THEN PipeRaise(r) ELSE PipeGoto(r, label)
    /\ UNCHANGED <<req, nreq, firstTime, tmpFile, markerAge, waited, sleepLeft,
                   html, shot, cards, images, badLog, forced, storage, browser, pipe>>

\* _wait_till_fully_loaded: "while True: complete = ...; if complete: break"
PollImage(r) ==
    /\ pc[r] = "imgpoll"
    /\ IF browser.img = "complete" THEN PipeGoto(r, "likes")
       ELSE UNCHANGED <<pc, resp>>
    /\ UNCHANGED <<req, nreq, firstTime, tmpFile, markerAge, waited, sleepLeft,
                   html, shot, cards, images, badLog, forced, storage, browser, pipe>>

\* get_twitter_likes_str, get_bluesky_likes_str, get_threads_likes_str:
\* whether the call raises NoSuchElementException
LikesRaises(post_type, page) ==
    CASE post_type = "XITTER" -> ~page.iframe
      [] post_type = "BLUESKY" -> ~page.iframe \/ ~page.likes
      [] post_type = "THREADS" -> ~page.likes
      [] OTHER -> FALSE

\* likes_str = _get_likes_str(post_type)
GetLikesStr(r) ==
    /\ pc[r] = "likes"
    /\ IF LikesRaises(html[r].platform, browser)
       THEN PipeRaise(r) /\ UNCHANGED pipe
       ELSE /\ \E likes_str \in LikesStrs :
                 pipe' = [pipe EXCEPT ![r].likes_str =
                             IF browser.likes THEN likes_str ELSE <<>>]
            /\ PipeGoto(r, "text")
    /\ UNCHANGED <<req, nreq, firstTime, tmpFile, markerAge, waited, sleepLeft,
                   html, shot, cards, images, badLog, forced, storage, browser>>

\* get_twitter_post_text, get_bluesky_post_text, get_threads_post_text:
\* whether the call raises NoSuchElementException
TextRaises(post_type, page) ==
    CASE post_type \in {"XITTER", "BLUESKY"} -> ~page.iframe \/ ~page.text
      [] post_type = "THREADS" -> ~page.text
      [] OTHER -> FALSE

\* post_text = _get_post_text(post_type)
GetPostText(r) ==
    /\ pc[r] = "text"
    /\ IF TextRaises(html[r].platform, browser)
       THEN PipeRaise(r) /\ UNCHANGED pipe
       ELSE /\ \E post_text \in PostTexts :
                 pipe' = [pipe EXCEPT ![r].post_text = post_text]
            /\ PipeGoto(r, "modify")
    /\ UNCHANGED <<req, nreq, firstTime, tmpFile, markerAge, waited, sleepLeft,
                   html, shot, cards, images, badLog, forced, storage, browser>>

\* _make_modifications up to its loop: find_element raises
\* NoSuchElementException and wait.until raises TimeoutException
MakeModifications(r) ==
    /\ pc[r] = "modify"
    /\ LET label == IF html[r].platform # "XITTER" THEN "shoot"
                    ELSE IF \/ ~browser.iframe
                            \/ browser.logo = "none"
                            \/ browser.logo = "hidden" THEN "raise"
                    ELSE "logopoll"
       IN  IF label = "raise" THEN PipeRaise(r) ELSE PipeGoto(r, label)
    /\ UNCHANGED <<req, nreq, firstTime, tmpFile, markerAge, waited, sleepLeft,
                   html, shot, cards, images, badLog, forced, storage, browser, pipe>>

\* _make_modifications: "while True: complete = ...; if complete: break"
PollLogo(r) ==
    /\ pc[r] = "logopoll"
    /\ IF browser.logo = "complete" THEN PipeGoto(r, "shoot")
       ELSE UNCHANGED <<pc, resp>>
    /\ UNCHANGED <<req, nreq, firstTime, tmpFile, markerAge, waited, sleepLeft,
                   html, shot, cards, images, badLog, forced, storage, browser, pipe>>

\* get_twitter_rect, get_bluesky_rect, get_threads_rect: whether the call
\* raises NoSuchElementException
RectRaises(post_type, page) ==
    CASE post_type \in {"XITTER", "BLUESKY"} -> ~page.iframe \/ ~page.parts
      [] post_type = "THREADS" -> ~page.parts
      [] OTHER -> FALSE

\* screenshot = _get_screenshot(); rect = _determine_key_part_of_screenshot(...);
\* cropped_screenshot = screenshot.crop(rect)
Crop(r, sizes) ==
    /\ pc[r] = "shoot"
    /\ IF RectRaises(html[r].platform, browser)
       THEN PipeRaise(r) /\ UNCHANGED pipe
       ELSE /\ \E cropped \in sizes : pipe' = [pipe EXCEPT ![r].cropped = cropped]
            /\ PipeGoto(r, "resize")
    /\ UNCHANGED <<req, nreq, firstTime, tmpFile, markerAge, waited, sleepLeft,
                   html, shot, cards, images, badLog, forced, storage, browser>>

\* _browser.set_window_size(600, 1000)
WindowW == 600
WindowH == 1000

\* what the browser reports when the rectangle is determined: ratio is
\* image.size[0] / window_size['width'], x, y and width are those of the
\* rect of the <iframe> (of the OuterContainer for Threads), upper_y is the y
\* of the first <div> of the <article> (of the top bar for Bluesky) and
\* lower_y the y of the <time> element (of the ActionBarContainer for
\* Threads).  The values are whole numbers, so that round() leaves the
\* results as they are.
Geometries ==
    [ratio : {1, 2}, x : {0, 24}, y : {0, 10}, width : {30, 550},
     upper_y : {0, 12}, lower_y : {8, 400, 1200}]

\* get_twitter_rect: find_element raises when an element is missing, so
\* that the branches for a missing <article> or <time> are never taken
get_twitter_rect(ratio, g) ==
    LET left == g.x * ratio + 2
        right == left + (g.width * ratio) - 4
        top == (g.y + g.upper_y) * ratio - 6
        bottom == (g.y + g.lower_y) * ratio - 10
    IN  [left |-> left, top |-> top, right |-> right, bottom |-> bottom]

\* get_bluesky_rect
get_bluesky_rect(ratio, g) ==
    LET left == (g.x + 1) * ratio
        right == left + ((g.width - 2) * ratio)
        top == (g.y + g.upper_y - 2) * ratio
        bottom == (g.y + g.lower_y - 7) * ratio
    IN  [left |-> left, top |-> top, right |-> right, bottom |-> bottom]

\* get_threads_rect
get_threads_rect(ratio, g) ==
    LET left == (g.x - 2) * ratio
        right == left + ((g.width - 37) * ratio)
        top == (g.y - 1) * ratio
        bottom == top + (g.lower_y - 16) * ratio
    IN  [left |-> left, top |-> top, right |-> right, bottom |-> bottom]

\* screenshot = _get_screenshot();
\* rect = _determine_key_part_of_screenshot(screenshot, post_type);
\* cropped_screenshot = screenshot.crop(rect), for the geometry that the
\* browser reports.  A rectangle without width or height gives no image
\* whose aspect ratio can be computed: an exception leaves the pipeline.
CropRect(r) ==
    /\ pc[r] = "shoot"
    /\ IF RectRaises(html[r].platform, browser)
       THEN PipeRaise(r) /\ UNCHANGED pipe
       ELSE \E g \in Geometries :
              LET post_type == html[r].platform
                  rect == CASE post_type = "XITTER" -> get_twitter_rect(g.ratio, g)
                            [] post_type = "BLUESKY" -> get_bluesky_rect(g.ratio, g)
                            [] post_type = "THREADS" -> get_threads_rect(g.ratio, g)
                            [] OTHER -> [left |-> 0, top |-> 0, right |-> WindowW * g.ratio,
                                         bottom |-> WindowH * g.ratio]
              IN  /\ pipe' = [pipe EXCEPT
                                ![r].screenshot = [w |-> WindowW * g.ratio,
                                                   h |-> WindowH * g.ratio],
                                ![r].rect = rect,
                                ![r].cropped = [w |-> rect.right - rect.left,
                                                h |-> rect.bottom - rect.top]]
                  /\ IF rect.right <= rect.left \/ rect.bottom <= rect.top
                     THEN PipeRaise(r)
                     ELSE PipeGoto(r, "resize")
    /\ UNCHANGED <<req, nreq, firstTime, tmpFile, markerAge, waited, sleepLeft,
                   html, shot, cards, images, badLog, forced, storage, browser>>

\* properly_sized_image = _get_properly_sized_image(cropped_screenshot) and
\* the return of get_screenshot_for_html
ProperlySize(r) ==
    /\ pc[r] = "resize"
    /\ LET sized == _get_properly_sized_image(pipe[r].cropped.w, pipe[r].cropped.h)
       IN  IF sized.raised
           THEN PipeRaise(r) /\ UNCHANGED <<shot, pipe>>
           ELSE /\ pipe' = [pipe EXCEPT ![r].cropped = [w |-> sized.img_w, h |-> sized.img_h]]
                /\ shot' = [shot EXCEPT ![r] =
                               Screenshot(browser.doc, pipe[r].cropped,
                                          pipe[r].likes_str, pipe[r].post_text)]
                /\ PipeGoto(r, "erase")
    /\ UNCHANGED <<req, nreq, firstTime, tmpFile, markerAge, waited, sleepLeft,
                   html, cards, images, badLog, forced, storage, browser>>

\* an image the page was waiting for finishes loading
ImageArrives ==
    /\ browser.loaded
    /\ \/ browser.img = "loading" /\ browser' = [browser EXCEPT !.img = "complete"]
       \/ browser.logo = "loading" /\ browser' = [browser EXCEPT !.logo = "complete"]
    /\ UNCHANGED <<pc, req, nreq, firstTime, tmpFile, markerAge, waited, sleepLeft,
                   html, shot, cards, images, badLog, resp, forced, storage, pipe>>

\* self._erase_tmp_file() after the render
EraseTmp(r) ==
    /\ pc[r] = "erase"
    /\ LET erased == _erase_tmp_file(tmpFile)
       IN  /\ tmpFile' = erased.file
           /\ markerAge' = IF erased.file.exists THEN markerAge ELSE 0
           /\ IF erased.exc = "none"
              THEN UNCHANGED resp /\ Goto(r, "save")
              ELSE Send(r, ErrorResponse("Exception for request")) /\ Goto(r, "done")
    /\ UNCHANGED <<req, nreq, firstTime, waited, sleepLeft, html, shot, cards,
                   images, badLog, forced,
                   storage, browser, pipe>>

\* mutant: the card is composed and cached without the image being saved
SaveImage_Skipped(r) ==
    /\ pc[r] = "save"
    /\ Goto(r, "putcard")
    /\ UNCHANGED <<req, nreq, firstTime, tmpFile, markerAge, waited, sleepLeft,
                   html, shot, cards, images, badLog, resp, forced,
                   storage, browser, pipe>>

\* screenshot_image.save(image_local_file_name); an exception it raises is
\* caught by the "except:" of _return_open_graph_card
SaveImage(r) ==
    /\ pc[r] = "save"
    /\ IF StorageError(storage)
       THEN /\ Send(r, ErrorResponse("Exception for request"))
            /\ Goto(r, "done")
            /\ UNCHANGED images
       ELSE /\ images' = [images EXCEPT
                            ![_image_file_name(UrlPath(req[r].path))] = shot[r].image]
            /\ Goto(r, "putcard")
            /\ UNCHANGED resp
    /\ UNCHANGED <<req, nreq, firstTime, tmpFile, markerAge, waited, sleepLeft,
                   html, shot, cards, badLog, forced,
                   storage, browser, pipe>>

\* the card document composed by _return_open_graph_card
CardHtml(r) == ComposeCard(UrlPath(req[r].path), shot[r])

\* self._put_card_into_cache(path, card_html): f = open(filename, "w"); only
\* FileNotFoundError is caught there, any other exception is caught by the
\* "except:" of _return_open_graph_card
PutCard(r) ==
    /\ pc[r] = "putcard"
    /\ IF StorageError(storage)
       THEN /\ Send(r, ErrorResponse("Exception for request"))
            /\ Goto(r, "done")
            /\ UNCHANGED cards
       ELSE /\ cards' = OpenCardForWrite(cards, UrlPath(req[r].path))
            /\ Goto(r, "writecard")
            /\ UNCHANGED resp
    /\ UNCHANGED <<req, nreq, firstTime, tmpFile, markerAge, waited, sleepLeft,
                   html, shot, images, badLog, forced,
                   storage, browser, pipe>>

\* f.write(html); f.close(); return self._html_response(card_html)
WriteCardAndRespond(r) ==
    /\ pc[r] = "writecard"
    /\ cards' = WriteCard(cards, UrlPath(req[r].path), CardHtml(r))
    /\ Send(r, HtmlResponse(CardHtml(r)))
    /\ Goto(r, "done")
    /\ UNCHANGED <<req, nreq, firstTime, tmpFile, markerAge, waited, sleepLeft,
                   html, shot, images, badLog, forced,
                   storage, browser, pipe>>

\* do_GET has returned or raised: the thread ends and can serve a new request
Finish(r) ==
    /\ pc[r] \in {"done", "raised"}
    /\ Goto(r, "idle")
    /\ req' = [req EXCEPT ![r] = NoReq]
    /\ resp' = [resp EXCEPT ![r] = <<>>]
    /\ html' = [html EXCEPT ![r] = NoHtml]
    /\ shot' = [shot EXCEPT ![r] = NoShot]
    /\ waited' = [waited EXCEPT ![r] = 0]
    /\ UNCHANGED <<nreq, firstTime, tmpFile, markerAge, sleepLeft, cards, images,
                   badLog, forced,
                   storage, browser, pipe>>

(***************************************************************************)
(* Environment: the clock, and card files growing older than the allowed   *)
(* age                                                                     *)
(***************************************************************************)
\* The clock is read only by a thread that sleeps in _write_html_to_tmp_file
\* (time.sleep and the test that follows it), so it advances while one does.
Tick ==
    /\ \E r \in Threads : pc[r] = "sleep" /\ sleepLeft[r] > 0
    /\ waited' = [r \in Threads |->
                    IF pc[r] \in {"acquire", "sleep"} /\ waited[r] <= TimeoutSecs
                    THEN waited[r] + TickSecs ELSE waited[r]]
    /\ sleepLeft' = [r \in Threads |->
                    IF sleepLeft[r] > TickSecs THEN sleepLeft[r] - TickSecs ELSE 0]
    /\ markerAge' = IF tmpFile.exists /\ markerAge <= TimeoutSecs
                    THEN markerAge + TickSecs ELSE markerAge
    /\ UNCHANGED <<pc, req, nreq, firstTime, tmpFile, html, shot, cards, images,
                   badLog, resp, forced,
                   storage, browser, pipe>>

\* ages, in seconds, at which a card file is looked at
CardAges == {allowable_cache_file_age_hours * 60 * 60 - 1,
             allowable_cache_file_age_hours * 60 * 60,
             allowable_cache_file_age_hours * 60 * 60 + 1}

\* Time has passed for a card file.  The age of a card file is read only by
\* a request that is about to look the file up, so it advances when one is.
AgeCard ==
    /\ \E r \in Threads, age \in CardAges :
          LET f == _get_cache_filename(UrlPath(req[r].path))
          IN  /\ pc[r] = "card"
              /\ CardFileOf(cards, f).exists /\ cards[f].age < age
              /\ cards' = [cards EXCEPT ![f].age = age]
    /\ UNCHANGED <<pc, req, nreq, firstTime, tmpFile, markerAge, waited, sleepLeft,
                   html, shot, images, badLog, resp, forced,
                   storage, browser, pipe>>

(***************************************************************************)
(* Specifications                                                          *)
(***************************************************************************)
Handler(r, paths, agents) ==
    \/ Start(r, paths, agents)
    \/ FirstTimeInit(r)
    \/ ReturnImage(r)
    \/ Classify(r)
    \/ CacheLookup(r)
    \/ FetchSnippet(r)
    \/ TryCreate(r)
    \/ Wake(r)
    \/ Render(r)
    \/ EraseTmp(r)
    \/ SaveImage(r)
    \/ PutCard(r)
    \/ WriteCardAndRespond(r)
    \/ Finish(r)

\* Requests of every kind, handled one after the other
Next ==
    \/ Tick
    \/ AgeCard
    \/ Handler(1, Paths, UserAgents)

Spec == Init /\ [][Next]_vars

\* Requests handled concurrently by the threads of the ThreadingHTTPServer
GatePaths == {P_Xitter, P_ImageXitter}
GateUserAgents == {Header(UA_OpenGraph)}

GateNext ==
    \/ Tick
    \/ AgeCard
    \/ \E r \in Threads : Handler(r, GatePaths, GateUserAgents)

GateSpec == Init /\ [][GateNext]_vars

\* GateSpec with time passing and the waiting threads scheduled
GateLiveSpec ==
    /\ GateSpec
    /\ WF_vars(Tick)
    /\ \A r \in Threads : WF_vars(TryCreate(r)) /\ WF_vars(Wake(r))

\* Direct calls of the two stores with payloads of any kind, among crawler
\* requests for a post and requests for its image, handled one after the other
StorePaths == {P_Xitter, P_Bluesky}

PayloadDoc(text) ==
    [path |-> P_Xitter, title |-> <<"t">>, description |-> text, image_url |-> <<"u">>,
     width |-> 1200, height |-> 630, of |-> NoHtml]

\* the empty string, a one-line document and a document with a "\r\n" line end
Payloads == {NoCardHtml, PayloadDoc(<<"h","i">>), PayloadDoc(<<"a","\r","\n","b">>)}

PayloadImages == {[exists |-> TRUE, of |-> NoHtml, width |-> 1200, height |-> 630]}

\* self._put_card_into_cache(path, html)
StoreCard ==
    /\ \E path \in StorePaths, payload \in Payloads :
          cards' = _put_card_into_cache(cards, path, payload)
    /\ UNCHANGED <<pc, req, nreq, firstTime, tmpFile, markerAge, waited, sleepLeft,
                   html, shot, images, badLog, resp, forced,
                   storage, browser, pipe>>

\* an image .save(self._image_file_name(path))
StoreImage ==
    /\ \E path \in StorePaths, image \in PayloadImages :
          images' = [images EXCEPT ![_image_file_name(path)] = image]
    /\ UNCHANGED <<pc, req, nreq, firstTime, tmpFile, markerAge, waited, sleepLeft,
                   html, shot, cards, badLog, resp, forced,
                   storage, browser, pipe>>

CacheNext ==
    \/ StoreCard
    \/ StoreImage
    \/ Tick
    \/ AgeCard
    \/ Handler(1, GatePaths, GateUserAgents)

CacheSpec == Init /\ [][CacheNext]_vars

\* Concurrent calls of _return_open_graph_card: every thread handles a
\* crawler request that do_GET has just classified; the startup cleanup is
\* over and both stores are empty.
CrawlPaths == {P_Xitter}
CrawlSizes == {[w |-> 600, h |-> 800]}

CrawlInitOf(paths) ==
    /\ pc = [r \in Threads |-> "card"]
    /\ \E path \in [Threads -> paths] :
          req = [r \in Threads |->
                   [id |-> r, path |-> path[r],
                    headers |-> Header(UA_OpenGraph), ip |-> "10.0.0.7"]]
    /\ nreq = NumThreads
    /\ firstTime = FALSE
    /\ tmpFile = NoTmp
    /\ markerAge = 0
    /\ waited = [r \in Threads |-> 0]
    /\ sleepLeft = [r \in Threads |-> 0]
    /\ html = [r \in Threads |-> NoHtml]
    /\ shot = [r \in Threads |-> NoShot]
    /\ cards = [f \in CardFiles |-> NoCard]
    /\ images = [f \in ImageFiles |-> NoImage]
    /\ badLog = <<>>
    /\ resp = [r \in Threads |-> <<>>]
    /\ forced = FALSE
    /\ storage = "ok"
    /\ browser = NoPage
    /\ pipe = [r \in Threads |-> NoPipe]

CrawlInit == CrawlInitOf(CrawlPaths)

CrawlNext ==
    \/ Tick
    \/ AgeCard
    \/ \E r \in Threads :
          \/ CacheLookup(r)
          \/ FetchSnippet(r)
          \/ TryCreate(r)
          \/ Wake(r)
          \/ RenderOf(r, CrawlSizes)
          \/ EraseTmp(r)
          \/ SaveImage(r)
          \/ PutCard(r)
          \/ WriteCardAndRespond(r)
          \/ Finish(r)

CrawlSpec == CrawlInit /\ [][CrawlNext]_vars

\* Concurrent calls of _return_open_graph_card for two different posts
MixSpec == CrawlInitOf(StorePaths) /\ [][CrawlNext]_vars

\* CrawlSpec with the directories cache/ and images/ becoming inaccessible
\* and accessible again at any moment
StorageFault ==
    /\ storage' = IF storage = "ok" THEN "denied" ELSE "ok"
    /\ UNCHANGED <<pc, req, nreq, firstTime, tmpFile, markerAge, waited, sleepLeft,
                   html, shot, cards, images, badLog, resp, forced, browser, pipe>>

FaultNext ==
    \/ StorageFault
    \/ CrawlNext

FaultSpec == CrawlInit /\ [][FaultNext]_vars

\* Calls of get_screenshot_for_html, one at a time: a crawler request for a
\* post of one of the three platforms has written its snippet to
\* tmp/post.html and calls the pipeline
PipePaths == {P_Xitter, P_Bluesky, P_Threads}

PipeInit ==
    /\ pc = [r \in Threads |-> IF r = 1 THEN "render" ELSE "idle"]
    /\ \E path \in PipePaths :
          /\ req = [r \in Threads |->
                      IF r = 1
                      THEN [id |-> 1, path |-> path,
                            headers |-> Header(UA_OpenGraph), ip |-> "10.0.0.7"]
                      ELSE NoReq]
          /\ html = [r \in Threads |-> IF r = 1 THEN SnippetFor(path) ELSE NoHtml]
          /\ tmpFile = Written(1, SnippetFor(path))
    /\ nreq = 1
    /\ firstTime = FALSE
    /\ markerAge = 0
    /\ waited = [r \in Threads |-> 0]
    /\ sleepLeft = [r \in Threads |-> 0]
    /\ shot = [r \in Threads |-> NoShot]
    /\ cards = [f \in CardFiles |-> NoCard]
    /\ images = [f \in ImageFiles |-> NoImage]
    /\ badLog = <<>>
    /\ resp = [r \in Threads |-> <<>>]
    /\ forced = FALSE
    /\ storage = "ok"
    /\ browser = NoPage
    /\ pipe = [r \in Threads |-> NoPipe]

Pipeline(r) ==
    \/ LoadUrl(r)
    \/ WaitTillFullyLoaded(r)
    \/ PollImage(r)
    \/ GetLikesStr(r)
    \/ GetPostText(r)
    \/ MakeModifications(r)
    \/ PollLogo(r)
    \/ Crop(r, CroppedSizes \cup {[w |-> 1300, h |-> 300]})
    \/ ProperlySize(r)

PipeNext ==
    \/ ImageArrives
    \/ \E r \in Threads : Pipeline(r)

PipeSpec == PipeInit /\ [][PipeNext]_vars

\* PipeSpec with the thread scheduled; nothing makes an image arrive
PipeLiveSpec ==
    /\ PipeSpec
    /\ \A r \in Threads : WF_vars(Pipeline(r))

\* PipeSpec with the crop rectangle computed by the platform's rect function
\* from the geometry that the browser reports
RectNext ==
    \/ ImageArrives
    \/ \E r \in Threads :
          \/ LoadUrl(r)
          \/ WaitTillFullyLoaded(r)
          \/ PollImage(r)
          \/ GetLikesStr(r)
          \/ GetPostText(r)
          \/ MakeModifications(r)
          \/ PollLogo(r)
          \/ CropRect(r)
          \/ ProperlySize(r)

RectSpec == PipeInit /\ [][RectNext]_vars

\* The rest of _return_open_graph_card for whatever get_screenshot_for_html
\* may return: a crawler request for a post of one of the three platforms
\* holds the marker and has just received the image, a shrink ratio, a likes
\* label and a post text
RenderResults(path) ==
    LET ShrinkRatios == {[num |-> 1, den |-> 2], [num |-> 79, den |-> 100],
                         [num |-> 4, den |-> 5], [num |-> 1, den |-> 1],
                         [num |-> 630, den |-> 629]}
    IN
    {[image |-> [exists |-> TRUE, of |-> SnippetFor(path),
                 width |-> MaxCanvasW, height |-> MaxCanvasH],
      shrinkage |-> ratio, likes_str |-> likes_str, post_text |-> post_text] :
        ratio \in ShrinkRatios, likes_str \in LikesStrs \cup {<<>>},
        post_text \in PostTexts \cup {<<>>}}

ComposeInit ==
    /\ pc = [r \in Threads |-> IF r = 1 THEN "erase" ELSE "idle"]
    /\ \E path \in PipePaths :
          /\ req = [r \in Threads |->
                      IF r = 1
                      THEN [id |-> 1, path |-> path,
                            headers |-> Header(UA_OpenGraph), ip |-> "10.0.0.7"]
                      ELSE NoReq]
          /\ html = [r \in Threads |-> IF r = 1 THEN SnippetFor(path) ELSE NoHtml]
          /\ tmpFile = Written(1, SnippetFor(path))
          /\ \E result \in RenderResults(path) :
                shot = [r \in Threads |-> IF r = 1 THEN result ELSE NoShot]
    /\ nreq = 1
    /\ firstTime = FALSE
    /\ markerAge = 0
    /\ waited = [r \in Threads |-> 0]
    /\ sleepLeft = [r \in Threads |-> 0]
    /\ cards = [f \in CardFiles |-> NoCard]
    /\ images = [f \in ImageFiles |-> NoImage]
    /\ badLog = <<>>
    /\ resp = [r \in Threads |-> <<>>]
    /\ forced = FALSE
    /\ storage = "ok"
    /\ browser = NoPage
    /\ pipe = [r \in Threads |-> NoPipe]

ComposeNext ==
    \E r \in Threads :
        \/ EraseTmp(r)
        \/ SaveImage(r)
        \/ PutCard(r)
        \/ WriteCardAndRespond(r)
        \/ Finish(r)

ComposeSpec == ComposeInit /\ [][ComposeNext]_vars

\* Calls of _write_html_to_tmp_file: every thread is either idle or a crawler
\* request that has fetched its snippet and is about to call it; the startup
\* cleanup is over; a marker may have been left by a holder that never
\* released it.  Time passes and the waiting threads are scheduled.
WaitPaths == {P_Xitter}

WaitInit ==
    /\ pc \in [Threads -> {"idle", "acquire"}]
    /\ \E path \in [Threads -> WaitPaths] :
          /\ req = [r \in Threads |->
                      IF pc[r] = "idle" THEN NoReq
                      ELSE [id |-> r, path |-> path[r],
                            headers |-> Header(UA_OpenGraph), ip |-> "10.0.0.7"]]
          /\ html = [r \in Threads |->
                      IF pc[r] = "idle" THEN NoHtml
                      ELSE Snippet(_get_post_type(path[r]),
                                   _parse_path(path[r], PlatformRegex(_get_post_type(path[r]))))]
    /\ nreq = NumThreads
    /\ firstTime = FALSE
    /\ tmpFile \in {NoTmp, [exists |-> TRUE, owner |-> 0, html |-> NoHtml]}
    /\ markerAge = 0
    /\ waited = [r \in Threads |-> 0]
    /\ sleepLeft = [r \in Threads |-> 0]
    /\ shot = [r \in Threads |-> NoShot]
    /\ cards = [f \in CardFiles |-> NoCard]
    /\ images = [f \in ImageFiles |-> NoImage]
    /\ badLog = <<>>
    /\ resp = [r \in Threads |-> <<>>]
    /\ forced = FALSE
    /\ storage = "ok"
    /\ browser = NoPage
    /\ pipe = [r \in Threads |-> NoPipe]

WaitNext ==
    \/ Tick
    \/ \E r \in Threads :
          \/ TryCreate(r)
          \/ Wake(r)
          \/ RenderOf(r, CrawlSizes)
          \/ EraseTmp(r)
          \/ SaveImage(r)
          \/ PutCard(r)
          \/ WriteCardAndRespond(r)
          \/ Finish(r)

\* No fairness for Render: a holder may stay in the browser forever.
WaitSpec ==
    /\ WaitInit
    /\ [][WaitNext]_vars
    /\ WF_vars(Tick)
    /\ \A r \in Threads : WF_vars(TryCreate(r)) /\ WF_vars(Wake(r))

(***************************************************************************)
(* Properties                                                              *)
(***************************************************************************)
Finished(r) == pc[r] \in {"done", "raised"}

\* the request handled by thread r created the marker that exists now
HoldsMarker(r) == tmpFile.exists /\ req[r].id # 0 /\ tmpFile.owner = req[r].id

\* the threads that are inside browser.get_screenshot_for_html
InBrowser == {r \in Threads : pc[r] = "render"}

\* C1: a request that created the marker tmp/post.html has removed it when
\* its response has been sent, whether the render returned or raised: after
\* a request has finished, the marker it created no longer exists.
C1_MarkerGoneWhenFinished ==
    \A r \in Threads : Finished(r) => ~HoldsMarker(r)

\* C2: as long as no waiter has taken the force-overwrite branch, at most one
\* request is between its return from _write_html_to_tmp_file and its call of
\* _erase_tmp_file.
C2_HoldIntervalsDisjoint ==
    ~forced => Cardinality(InBrowser) <= 1

\* C3: a waiter overwrites an existing marker only when that marker has
\* persisted, unchanged, for longer than the 20 second timeout.
C3_OverwriteOnlyOldMarker ==
    [][\A r \in Threads :
          (pc[r] = "sleep" /\ pc'[r] = "render" /\ tmpFile.exists)
             => markerAge > TimeoutSecs]_vars

\* C4: every call of _write_html_to_tmp_file eventually returns with the
\* caller holding the marker, whatever the other requests do and even when
\* an earlier holder never releases the marker.
C4_WaiterEventuallyHolds ==
    \A r \in Threads :
        (pc[r] \in {"acquire", "sleep"}) ~> (pc[r] = "render" /\ HoldsMarker(r))

\* a waiter whose wait exceeded the timeout has overwritten the marker and
\* returned
C4_Witness ==
    \E r \in Threads :
        /\ pc[r] = "render" /\ HoldsMarker(r)
        /\ forced /\ waited[r] > TimeoutSecs

\* C5: release is idempotent: _erase_tmp_file never raises, leaves the file
\* system unchanged when the marker is absent, and a second call in a row
\* has no further effect.
C5_EraseIdempotent ==
    LET once == _erase_tmp_file(tmpFile)
        twice == _erase_tmp_file(once.file)
    IN  /\ once.exc = "none"
        /\ twice.exc = "none"
        /\ twice.file = once.file
        /\ ~once.file.exists
        /\ (~tmpFile.exists => once.file = tmpFile)

\* the first request has run the startup cleanup and gone on, and there is
\* no marker
C5_Witness ==
    \E r \in Threads :
        req[r].id = 1 /\ pc[r] = "route" /\ ~firstTime /\ ~tmpFile.exists

(***************************************************************************)
(* What the claims say about a request, stated without the program's       *)
(* classification functions                                                *)
(***************************************************************************)
\* needle occurs in s, letter case ignored
CaselessContains(s, needle) ==
    \E i \in 1..(Len(s) - Len(needle) + 1) :
        \A j \in 1..Len(needle) : LowerChar(s[i + j - 1]) = LowerChar(needle[j])

\* the User-Agent header contains 'opengraph' or 'bluesky cardyb'
HasCrawlerAgent(r) ==
    /\ req[r].headers.present
    /\ \/ CaselessContains(req[r].headers.value, S_opengraph)
       \/ CaselessContains(req[r].headers.value, S_cardyb)

OneResponse(r) == pc[r] = "done" /\ Len(resp[r]) = 1

OnCardPath(r) ==
    \/ pc[r] \in {"card", "fetch", "acquire", "sleep", "render", "erase", "save",
                 "putcard", "writecard"}
    \/ pc[r] = "done" /\ Len(resp[r]) = 1 /\ resp[r][1].kind \in {"card", "error"}

OnRedirectPath(r) ==
    pc[r] = "done" /\ Len(resp[r]) = 1 /\ resp[r][1].kind = "redirect"

\* the request of thread r has been routed by do_GET
Routed(r) == req[r].id # 0 /\ pc[r] \notin {"idle", "init", "route"}

\* the path, without its query string, has the documented form of a post of
\* the platform
IsPostPathOf(platform, path) ==
    LET parsed == _parse_path(UrlPath(path), PlatformRegex(platform))
    IN  /\ ~parsed.raised
        /\ platform = "THREADS" => parsed.user_name[1] = "@"

MatchesNoGrammar(path) ==
    \A platform \in {"XITTER", "BLUESKY", "THREADS"} :
        _parse_path(UrlPath(path), PlatformRegex(platform)).raised

PlatformDomain(platform) ==
    CASE platform = "XITTER" -> S_x_com
      [] platform = "BLUESKY" -> S_bsky_app
      [] platform = "THREADS" -> S_threads_net

\* C6: every GET request results in exactly one response, which is a 302
\* redirect, a 200 card document, a 200 PNG image or a 404 with a message;
\* no exception escapes do_GET.
C6_ExactlyOneResponse ==
    \A r \in Threads :
        Finished(r) =>
            /\ OneResponse(r)
            /\ \/ resp[r][1].status = 302 /\ resp[r][1].kind = "redirect"
               \/ resp[r][1].status = 200 /\ resp[r][1].kind = "card"
               \/ resp[r][1].status = 200 /\ resp[r][1].kind = "image"
               \/ resp[r][1].status = 404 /\ resp[r][1].kind = "error"

\* C7: a GET whose path begins with /images is answered from the image
\* store by the literal path: 200 image/png with the file when it exists,
\* 404 when it does not.
C7_ImageRoute ==
    \A r \in Threads :
        (Finished(r) /\ IsImageRequest(req[r].path)) =>
            LET name == Tail(req[r].path)
                stored == name \in DOMAIN images /\ images[name].exists
            IN  /\ OneResponse(r)
                /\ IF stored
                   THEN /\ resp[r][1].status = 200
                        /\ resp[r][1].ctype = "image/png"
                        /\ resp[r][1].body = images[name]
                   ELSE resp[r][1].status = 404

\* C8: a request outside the image namespace takes the card path exactly
\* when its User-Agent contains 'opengraph' or 'bluesky cardyb', letter case
\* ignored; every other request takes the redirect path.
C8_CardPathIffCrawlerAgent ==
    \A r \in Threads :
        (Routed(r) /\ ~IsImageRequest(req[r].path)) =>
            /\ OnCardPath(r) <=> HasCrawlerAgent(r)
            /\ ~HasCrawlerAgent(r) => OnRedirectPath(r)

C10_UnparseableIs404AndLogged ==
    \A r \in Threads :
        ( /\ Finished(r)
          /\ ~IsImageRequest(req[r].path)
          /\ req[r].headers.present
          /\ MatchesNoGrammar(req[r].path) )
        => /\ OneResponse(r)
           /\ resp[r][1].status = 404
           /\ resp[r][1].ctype = "text/plain"
           /\ Cardinality({i \in 1..Len(badLog) : badLog[i].by = req[r].id}) = 1

\* C11: path parsing is total: for the path of every request,
\* _get_post_type followed by _parse_path with that platform's regex returns
\* without raising; it yields a platform, with the user name and post id,
\* only for a path that matches that platform's grammar, and Unknown exactly
\* for the paths that match none of the grammars.
C11_ParsingTotal ==
    \A r \in Threads :
        req[r].id # 0 =>
            LET path == UrlPath(req[r].path)
                post_type == _get_post_type(path)
            IN  /\ post_type # "UNKNOWN" =>
                      ~_parse_path(path, PlatformRegex(post_type)).raised
                /\ post_type = "UNKNOWN" <=> MatchesNoGrammar(path)

\* the card file for the path of the request of thread r, query string stripped
CardFileFor(r) == CardFileOf(cards, _get_cache_filename(UrlPath(req[r].path)))

\* that file holds a card document younger than the allowed age
HoldsFreshCard(r) ==
    /\ CardFileFor(r).exists
    /\ CardFileFor(r).html # NoCardHtml
    /\ CardFileFor(r).age < allowable_cache_file_age_hours * 3600

\* C12: once a crawler request for P has completed with a 200 card, the
\* card file holds exactly the document that was sent; a later crawler
\* request whose path is P once the query string is stripped, and which
\* looks the card up while it is fresh, is answered at once with that same
\* document: no snippet is fetched, the marker is not touched, nothing is
\* rendered and neither store is written.
C12_FreshCardServedFromCache ==
    [][\A r \in Threads :
          /\ (pc[r] = "writecard" /\ pc'[r] = "done") =>
                /\ resp'[r][1].status = 200
                /\ cards'[_get_cache_filename(UrlPath(req[r].path))].html = resp'[r][1].body
          /\ (pc[r] = "card" /\ pc'[r] # "card" /\ HoldsFreshCard(r)) =>
                /\ pc'[r] = "done"
                /\ resp'[r] = <<HtmlResponse(CardFileFor(r).html)>>
                /\ UNCHANGED <<html, shot, tmpFile, markerAge, cards, images>>]_vars

\* a request for /al/status/1?s=2 has been answered with the card that an
\* earlier request for /al/status/1 generated, without rendering
C12_Witness ==
    \E r \in Threads :
        /\ pc[r] = "done"
        /\ req[r].path = P_XitterQuery
        /\ req[r].id > 1
        /\ Len(resp[r]) = 1 /\ resp[r][1].kind = "card"
        /\ resp[r][1].body.path = P_Xitter
        /\ shot[r] = NoShot /\ html[r] = NoHtml

\* C13: a lookup of a card file written T seconds ago serves the card from
\* the cache when T < TTLHours*3600 and starts the pipeline, sending nothing
\* from the cache, when T >= TTLHours*3600.
C13_FreshBelowTtlStaleFromTtl ==
    [][\A r \in Threads :
          ( /\ pc[r] = "card" /\ pc'[r] # "card"
            /\ CardFileFor(r).exists /\ CardFileFor(r).html # NoCardHtml )
          => IF CardFileFor(r).age < allowable_cache_file_age_hours * 3600
             THEN /\ pc'[r] = "done"
                  /\ resp'[r] = <<HtmlResponse(CardFileFor(r).html)>>
             ELSE /\ pc'[r] = "fetch"
                  /\ resp'[r] = <<>>]_vars

\* a card has been served from the cache one second before it reaches the
\* allowed age
C13_Witness ==
    \E r \in Threads :
        /\ pc[r] = "done"
        /\ Len(resp[r]) = 1 /\ resp[r][1].kind = "card"
        /\ shot[r] = NoShot
        /\ CardFileFor(r).age = allowable_cache_file_age_hours * 3600 - 1

\* that file holds a card document that has reached the allowed age
HoldsStaleCard(r) ==
    /\ CardFileFor(r).exists
    /\ CardFileFor(r).html # NoCardHtml
    /\ CardFileFor(r).age >= allowable_cache_file_age_hours * 3600

\* C14: no step deletes a card file or an image file.  A crawler request
\* that finds a stale card for P starts the pipeline; until it has a
\* rendered image it writes neither store, and a request that ends with an
\* error has written neither; a pipeline that succeeds stores the new image
\* under images/<hash(P)>.png and the new card under cache/<hash(P)>_card.html
\* with age 0, so that it is fresh for the next lookup.
C14_StaleCardRegenerated ==
    [][/\ \A f \in CardFiles : cards[f].exists => cards'[f].exists
       /\ \A f \in ImageFiles : images[f].exists => images'[f].exists
       /\ \A r \in Threads :
             /\ (pc[r] = "card" /\ pc'[r] # "card" /\ HoldsStaleCard(r)) =>
                   pc'[r] = "fetch" /\ cards' = cards /\ images' = images
             /\ (pc[r] \in {"fetch", "acquire", "sleep", "render", "erase"} /\ HoldsStaleCard(r)) =>
                   cards' = cards /\ images' = images
             /\ (pc'[r] = "done" /\ pc[r] # "done" /\ resp'[r][1].status = 404) =>
                   cards' = cards /\ images' = images /\ pc[r] \in {"fetch", "render", "erase"}
             /\ (pc[r] = "save" /\ pc'[r] # "save") =>
                   images'[_image_file_name(UrlPath(req[r].path))] = shot[r].image
             /\ (pc[r] = "writecard" /\ pc'[r] # "writecard") =>
                   LET written == cards'[_get_cache_filename(UrlPath(req[r].path))]
                   IN  /\ written.exists /\ written.age = 0
                       /\ written.html = resp'[r][1].body
                       /\ written.html # NoCardHtml
                       /\ images'[_image_file_name(UrlPath(req[r].path))] = shot[r].image
                       /\ images'[_image_file_name(UrlPath(req[r].path))].exists]_vars

\* a request that found a stale card has rendered and stored a new image and
\* is about to overwrite the card, which is still in place
C14_Witness ==
    \E r \in Threads :
        /\ pc[r] = "putcard"
        /\ HoldsStaleCard(r)
        /\ images[_image_file_name(UrlPath(req[r].path))] = shot[r].image

\* C15: cache round trip: after _put_card_into_cache(P, h),
\* _get_card_from_cache(P) returns h and _return_open_graph_card treats it
\* as a cached card; and a GET of the path of an image file is answered
\* with the image stored in that file.
C15_CacheRoundTrip ==
    [][/\ \A path \in StorePaths, payload \in Payloads :
             cards' = _put_card_into_cache(cards, path, payload) =>
                /\ _get_card_from_cache(cards', path) = [none |-> FALSE, html |-> payload]
                /\ IsCacheHit(cards', path)
       /\ \A r \in Threads :
             (pc[r] = "route" /\ pc'[r] = "done" /\ IsImageRequest(req[r].path)) =>
                resp'[r][1].body = images[Tail(req[r].path)]]_vars

\* C16: the two stores stay consistent under any interleaving of requests:
\* whenever the card store holds a card file for P, the image store holds
\* images/<hash(P)>.png, and that is the file the card's og:image refers to.
C16_CardImpliesImage ==
    \A path \in PostPaths :
        cards[_get_cache_filename(path)].exists =>
            /\ images[_image_file_name(path)].exists
            /\ cards[_get_cache_filename(path)].html # NoCardHtml =>
                  cards[_get_cache_filename(path)].html.image_url
                      = S_http \o domain \o <<"/">> \o _images_directory \o <<"/">>
                           \o stable_hash_str(path) \o S_png

\* a request has generated and sent the card of a post, and another request
\* for the same post has truncated the card file and is about to write it
C16_Witness ==
    \E r1 \in Threads, r2 \in Threads :
        /\ r1 # r2
        /\ pc[r1] = "writecard" /\ pc[r2] = "done"
        /\ req[r1].path = req[r2].path
        /\ Len(resp[r2]) = 1 /\ resp[r2][1].kind = "card"
        /\ shot[r2] # NoShot

\* C17: a crawler request writes neither store before its render has
\* returned, and when the render raises the request ends there: it is
\* answered 404 and the image file and the card file are as they were.
C17_FailedRenderWritesNothing ==
    [][\A r \in Threads :
          (pc'[r] # pc[r] /\ pc[r] \in {"card", "fetch", "acquire", "sleep", "render"}) =>
              /\ cards' = cards
              /\ images' = images
              /\ (pc[r] = "render" /\ pc'[r] # "erase") =>
                    /\ pc'[r] = "done"
                    /\ Len(resp'[r]) = 1
                    /\ resp'[r][1].status = 404
                    /\ resp'[r][1].kind = "error"]_vars

\* a request whose snippet was fetched has been answered 404 and there is
\* no card file for its post
C17_Witness ==
    \E r \in Threads :
        /\ pc[r] = "done"
        /\ html[r] # NoHtml
        /\ resp[r] = <<ErrorResponse("Exception for request")>>
        /\ ~CardFileFor(r).exists
        /\ ~images[_image_file_name(UrlPath(req[r].path))].exists

\* C18: requests that do not render bypass the gate: no step of an image
\* request, and no step that ends a request with a redirect, a cached card
\* or a failure before rendering, creates, overwrites or deletes a marker
\* that a request has written to tmp/post.html.
C18_NoRenderNoMarker ==
    [][\A r \in Threads :
          ( /\ pc'[r] # pc[r]
            /\ tmpFile.exists /\ tmpFile.owner # 0
            /\ \/ IsImageRequest(req[r].path)
               \/ pc[r] \in {"route", "card", "fetch"} /\ pc'[r] \in {"done", "raised"} )
          => tmpFile' = tmpFile]_vars

\* the request of thread r has generated a card and sent it
SentGeneratedCard(r) ==
    /\ pc[r] = "done"
    /\ Len(resp[r]) = 1 /\ resp[r][1].kind = "card"
    /\ shot[r] # NoShot

\* C19: in every generated card, og:description is the extracted post text
\* and og:title ends with a colon when the shrink ratio returned by the
\* pipeline is below 0.8 (8/10); otherwise og:description is empty and the
\* title has no trailing colon.
C19_DescriptionIffShrunk ==
    \A r \in Threads :
        SentGeneratedCard(r) =>
            LET card == resp[r][1].body
                below == 10 * shot[r].shrinkage.num < 8 * shot[r].shrinkage.den
            IN  /\ card.title # <<>>
                /\ IF below
                   THEN /\ card.description = shot[r].post_text
                        /\ card.title[Len(card.title)] = ":"
                   ELSE /\ card.description = <<>>
                        /\ card.title[Len(card.title)] # ":"

\* a card with the post text and a trailing colon has been generated for a
\* shrink ratio of 0.79
C19_Witness ==
    \E r \in Threads :
        /\ SentGeneratedCard(r)
        /\ shot[r].shrinkage = [num |-> 79, den |-> 100]
        /\ resp[r][1].body.description = <<"h","i">>
        /\ resp[r][1].body.title[Len(resp[r][1].body.title)] = ":"

\* the URL of the image of the post at path, as the claim spells it
ImageUrlOf(path) ==
    S_http \o domain \o <<"/","i","m","a","g","e","s","/">> \o stable_hash_str(path) \o S_png

\* C20: the card generated for P, as sent and as stored, has og:image equal
\* to 'http://' + domain + '/images/' + hash(P) + '.png' and og:image:width
\* and og:image:height equal to the size of the image stored for P; and a
\* GET of the path of that URL is answered by the image route, 200
\* image/png, with the image stored for P.
C20_CardPointsAtStoredImage ==
    /\ \A r \in Threads :
          SentGeneratedCard(r) =>
              LET path == UrlPath(req[r].path)
                  card == resp[r][1].body
                  stored == images[_image_file_name(path)]
              IN  /\ card.image_url = ImageUrlOf(path)
                  /\ stored.exists
                  /\ card.width = stored.width /\ card.height = stored.height
                  /\ cards[_get_cache_filename(path)].html = card
    /\ \A r \in Threads : \A path \in PostPaths :
          ( /\ Finished(r)
            /\ cards[_get_cache_filename(path)].html # NoCardHtml
            /\ S_http \o domain \o req[r].path = cards[_get_cache_filename(path)].html.image_url )
          => /\ pc[r] = "done"
             /\ resp[r] = <<ImageResponse(images[_image_file_name(path)])>>
             /\ images[_image_file_name(path)].exists

\* the image that the card of /al/status/1 points at has been requested and
\* served
C20_Witness ==
    \E r \in Threads :
        /\ pc[r] = "done"
        /\ cards[_get_cache_filename(P_Xitter)].html # NoCardHtml
        /\ S_http \o domain \o req[r].path = cards[_get_cache_filename(P_Xitter)].html.image_url
        /\ Len(resp[r]) = 1 /\ resp[r][1].status = 200 /\ resp[r][1].ctype = "image/png"
        /\ resp[r][1].body = images[_image_file_name(P_Xitter)]

\* the request of thread r asked the embed service for a snippet and got none
FetchFailed(r) ==
    /\ pc[r] = "done"
    /\ html[r] = NoHtml
    /\ shot[r] = NoShot
    /\ _get_post_type(UrlPath(req[r].path)) # "UNKNOWN"
    /\ ~_parse_path(UrlPath(req[r].path),
                    PlatformRegex(_get_post_type(UrlPath(req[r].path)))).raised
    /\ Len(resp[r]) = 1 /\ resp[r][1].kind = "error"

\* C21: a crawler request whose snippet fetch returns no snippet or raises
\* ends at once: it is answered 404 with a diagnostic message, the fetch is
\* not made a second time, the request does not create or overwrite the
\* marker, and the step writes neither the card store nor the image store.
C21_FetchFailureIs404 ==
    [][\A r \in Threads :
          /\ (pc[r] = "fetch" /\ pc'[r] # "fetch" /\ html'[r] = NoHtml) =>
                /\ pc'[r] = "done"
                /\ Len(resp'[r]) = 1
                /\ resp'[r][1].status = 404 /\ resp'[r][1].kind = "error"
                /\ resp'[r][1].body \in {"Could not get html", "Exception for request"}
                /\ UNCHANGED <<tmpFile, cards, images>>
          /\ (pc'[r] = "fetch" /\ pc[r] # "fetch") => pc[r] = "card"
          /\ (pc[r] = "done" /\ pc'[r] # "done") => pc'[r] = "idle"
          /\ (pc'[r] = "done" /\ html'[r] = NoHtml) =>
                ~(tmpFile'.exists /\ tmpFile'.owner = req'[r].id)]_vars

\* a request for a post of X has been answered 404 because the embed service
\* returned no snippet
C21_Witness ==
    \E r \in Threads :
        /\ FetchFailed(r)
        /\ resp[r] = <<ErrorResponse("Could not get html")>>
        /\ req[r].path = P_Xitter

\* C22: a storage error while the card cache is read is treated as a cache
\* miss, and a storage error while the image or the card is written after a
\* successful render is dropped: the request goes on and the generated card
\* is returned with status 200.
C22_StorageErrorsTolerated ==
    [][\A r \in Threads :
          /\ (pc[r] = "card" /\ pc'[r] # "card" /\ storage = "denied") =>
                pc'[r] = "fetch"
          /\ (pc[r] \in {"save", "putcard"} /\ pc'[r] # pc[r] /\ storage = "denied") =>
                /\ pc'[r] \in {"putcard", "writecard", "done"}
                /\ pc'[r] = "done" =>
                      resp'[r][1].status = 200 /\ resp'[r][1].kind = "card"]_vars

\* C23: the _erase_tmp_file of a request removes only a marker that the same
\* request created: in no interleaving, the ones with a force-overwrite
\* included, does it delete the marker that another request holds.
C23_ReleaseRemovesOwnMarker ==
    [][\A r \in Threads :
          (pc[r] = "erase" /\ pc'[r] # "erase") =>
              /\ (tmpFile.exists /\ ~tmpFile'.exists) => tmpFile.owner = req[r].id
              /\ \A q \in Threads \ {r} :
                    (HoldsMarker(q) /\ pc[q] \in {"render", "erase"}) =>
                        tmpFile' = tmpFile]_vars

\* C24: the startup cleanup guarded by _first_time runs at most once, that
\* is only while the flag is still set, and never removes a marker that a
\* request of the running process has written.
C24_StartupCleanupOnce ==
    [][\A r \in Threads :
          (pc[r] = "init" /\ pc'[r] # "init") =>
              /\ firstTime
              /\ (tmpFile.exists /\ tmpFile.owner # 0) => tmpFile' = tmpFile]_vars

\* C25: between a request writing its snippet into tmp/post.html and the
\* browser loading that file no other request replaces or deletes the file,
\* so the image and the card stored under hash(P) are always produced from
\* the snippet that was fetched for P.
C25_StoredFromOwnSnippet ==
    [][/\ \A r \in Threads :
             (pc[r] = "render" /\ pc'[r] = "render" /\ HoldsMarker(r)) =>
                 tmpFile' = tmpFile
       /\ \A path \in PostPaths :
             /\ images'[_image_file_name(path)].exists =>
                   images'[_image_file_name(path)].of = SnippetFor(path)
             /\ cards'[_get_cache_filename(path)].html # NoCardHtml =>
                   cards'[_get_cache_filename(path)].html.of = SnippetFor(path)]_vars

\* C27 as stated: on a cache miss the gate is acquired before the snippet
\* is fetched, and the image file and the card file are written while the
\* request still holds the marker.
C27_StoresWrittenUnderGate ==
    [][\A r \in Threads :
          /\ (pc[r] = "fetch" /\ pc'[r] = "acquire") => HoldsMarker(r)
          /\ (pc[r] \in {"save", "putcard", "writecard"} /\ pc'[r] # pc[r]) =>
                HoldsMarker(r)]_vars

\* C27 as amended: on a cache miss the steps occur in the order fetch the
\* snippet, _write_html_to_tmp_file, render, _erase_tmp_file, write the
\* image, write the card, send the response; the image file and the card
\* file are written only by a request that has called _erase_tmp_file and no
\* longer holds the marker, and the generated card is sent last.
C27_OrderOfSteps ==
    [][/\ \A r \in Threads :
             pc'[r] # pc[r] =>
                 /\ pc'[r] = "fetch" => pc[r] = "card"
                 /\ pc'[r] = "acquire" => pc[r] \in {"fetch", "sleep"} /\ html'[r] # NoHtml
                 /\ pc'[r] = "sleep" => pc[r] = "acquire"
                 /\ pc'[r] = "render" =>
                       /\ pc[r] \in {"acquire", "sleep"}
                       /\ tmpFile'.exists /\ tmpFile'.owner = req[r].id
                 /\ pc'[r] = "erase" => pc[r] = "render"
                 /\ pc'[r] = "save" => pc[r] = "erase"
                 /\ pc'[r] = "putcard" =>
                       /\ pc[r] = "save"
                       /\ images'[_image_file_name(UrlPath(req[r].path))] = shot[r].image
                 /\ pc'[r] = "writecard" => pc[r] = "putcard"
                 /\ pc[r] = "writecard" =>
                       /\ pc'[r] = "done"
                       /\ resp'[r] = <<HtmlResponse(CardHtml(r))>>
                 /\ pc[r] \in {"save", "putcard", "writecard"} => ~HoldsMarker(r)
                 /\ (Len(resp'[r]) > Len(resp[r]) /\ shot[r] # NoShot) => pc[r] = "writecard"
       /\ images' # images =>
             \E r \in Threads : pc[r] = "save" /\ pc'[r] = "putcard"
       /\ (\E f \in CardFiles : cards'[f].html # cards[f].html \/ cards'[f].exists # cards[f].exists) =>
             \E r \in Threads : pc[r] \in {"putcard", "writecard"} /\ pc'[r] # pc[r]]_vars

\* a request has released the marker and stored its image, and is about to
\* write its card while another request holds the marker and renders
C27_Witness ==
    \E r \in Threads, q \in Threads :
        /\ pc[r] = "putcard"
        /\ images[_image_file_name(UrlPath(req[r].path))] = shot[r].image
        /\ ~HoldsMarker(r)
        /\ pc[q] = "render" /\ HoldsMarker(q)

\* C26: the shrink ratio that get_screenshot_for_html returns is the height
\* of the final image divided by the height the cropped screenshot had
\* before _get_properly_sized_image resized it, so that it is below 1
\* whenever the crop was shrunk.
C26_RatioOverPreResizeHeight ==
    [][\A r \in Threads :
          (pc[r] = "resize" /\ pc'[r] = "erase") =>
              /\ shot'[r].shrinkage.num * pipe[r].cropped.h
                    = shot'[r].image.height * shot'[r].shrinkage.den
              /\ pipe'[r].cropped # pipe[r].cropped =>
                    shot'[r].shrinkage.num < shot'[r].shrinkage.den]_vars

\* C28: every run of get_screenshot_for_html ends, with a result or by
\* raising, also when an image of the frame or the replacement logo never
\* becomes complete.
C28_PipelineTerminates ==
    \A r \in Threads : (pc[r] \in PipeStages) ~> (pc[r] \notin PipeStages)

\* C29: for every size of the cropped screenshot _get_properly_sized_image
\* produces a canvas whose width / height is 1.9 within rounding (0.05),
\* whose width is at most 1200 and height at most 630, and that contains
\* the possibly shrunk image.
C29_CanvasWithinBounds ==
    [][\A r \in Threads :
          (pc[r] = "resize" /\ pc'[r] # "resize") =>
              /\ pc'[r] = "erase"
              /\ shot'[r].image.width <= 1200
              /\ shot'[r].image.height <= 630
              /\ 20 * shot'[r].image.width <= 39 * shot'[r].image.height
              /\ 20 * shot'[r].image.width >= 37 * shot'[r].image.height
              /\ pipe'[r].cropped.w <= shot'[r].image.width
              /\ pipe'[r].cropped.h <= shot'[r].image.height]_vars

\* C30: when the loaded document contains no sub-frame, or no <div> appears
\* in the sub-frame within the wait, the pipeline does not fail for any of
\* the three platforms: waiting, extraction of likes and text, modification,
\* screenshot and crop go on to the resize step.  Every locator other than
\* those of the sub-frame and of its first <div> finds its element, and
\* every image is complete.
C30_NoFrameIsNotFatal ==
    [][\A r \in Threads :
          ( /\ pc[r] \in PipeStages \ {"render", "resize"}
            /\ pc'[r] # pc[r]
            /\ ~browser.iframe \/ browser.div = "none"
            /\ browser.img \in {"none", "complete"}
            /\ browser.likes /\ browser.text /\ browser.parts
            /\ browser.logo = "complete" )
          => pc'[r] \in PipeStages]_vars

\* C31: extraction of the likes label and of the post text is best-effort
\* on every platform: when the element that would carry the likes count or
\* the post text is absent from the rendered document, whose sub-frame is
\* there, the extractor returns the empty string and does not raise, and the
\* pipeline goes on to its next step.
C31_ExtractionBestEffort ==
    [][\A r \in Threads :
          /\ (pc[r] = "likes" /\ pc'[r] # "likes" /\ browser.iframe /\ ~browser.likes)
                => (pc'[r] = "text" /\ pipe'[r].likes_str = <<>>)
          /\ (pc[r] = "text" /\ pc'[r] # "text" /\ browser.iframe /\ ~browser.text)
                => (pc'[r] = "modify" /\ pipe'[r].post_text = <<>>)]_vars

\* C32: concurrent cache misses are not deduplicated.  A crawler request for
\* P that found no fresh card goes on to the gate and to the pipeline without
\* looking at the cache again, also when another request has stored a fresh
\* card for P in the meantime; it calls the pipeline once; when the pipeline
\* returns a result the request writes images/<hash(P)>.png and
\* cache/<hash(P)>_card.html, names that depend on P alone and so are the
\* same for every request for P, over whatever is there, so that after each
\* write the file holds the output of the request that wrote last.
C32_NoDeduplication ==
    [][\A r \in Threads :
          LET path == UrlPath(req[r].path)
              image_file == _image_file_name(path)
              card_file == _get_cache_filename(path)
          IN  /\ (pc[r] \in {"acquire", "sleep"} /\ pc'[r] # pc[r]) =>
                    /\ pc'[r] \in {"acquire", "sleep", "render"}
                    /\ resp'[r] = resp[r]
              /\ (pc'[r] = "render" /\ pc[r] # "render") =>
                    /\ pc[r] \in {"acquire", "sleep"}
                    /\ shot[r] = NoShot
              /\ (pc[r] = "render" /\ pc'[r] # "render") =>
                    \/ pc'[r] = "erase" /\ shot'[r] # NoShot
                    \/ pc'[r] = "done" /\ resp'[r][1].status = 404
              /\ (pc[r] \in {"erase", "save", "putcard", "writecard"} /\ pc'[r] # pc[r]) =>
                    pc'[r] \in {"save", "putcard", "writecard", "done"}
              /\ (pc[r] = "save" /\ pc'[r] # "save") =>
                    /\ pc'[r] = "putcard"
                    /\ images' = [images EXCEPT ![image_file] = shot[r].image]
              /\ (pc[r] = "putcard" /\ pc'[r] # "putcard") =>
                    /\ pc'[r] = "writecard"
                    /\ cards' = [cards EXCEPT ![card_file] =
                                    [exists |-> TRUE, age |-> 0, html |-> NoCardHtml]]
              /\ (pc[r] = "writecard" /\ pc'[r] # "writecard") =>
                    /\ cards' = [cards EXCEPT ![card_file] =
                                    [exists |-> TRUE, age |-> 0,
                                     html |-> WriteDoc(CardHtml(r))]]
                    /\ resp'[r][1].status = 200]_vars

\* every request for P has run the pipeline and answered with the card it
\* generated, and a request other than the one that wrote the card last is
\* among them
C32_Witness ==
    /\ \A r \in Threads :
          /\ pc[r] = "done"
          /\ shot[r] # NoShot
          /\ Len(resp[r]) = 1 /\ resp[r][1].status = 200
          /\ UrlPath(req[r].path) = UrlPath(P_Xitter)
    /\ cards[_get_cache_filename(UrlPath(P_Xitter))].html # NoCardHtml
    /\ images[_image_file_name(UrlPath(P_Xitter))].exists

\* C33: for every platform and every geometry that the browser reports, the
\* crop rectangle returned by the platform's rect function has left < right
\* and top < bottom, and its four values lie within
\* [0, screenshot width] x [0, screenshot height].
C33_CropRectWithinScreenshot ==
    [][\A r \in Threads :
          (pc[r] = "shoot" /\ pc'[r] # "shoot" /\ ~RectRaises(html[r].platform, browser)) =>
              LET rect == pipe'[r].rect
                  screenshot == pipe'[r].screenshot
              IN  /\ rect.left < rect.right
                  /\ rect.top < rect.bottom
                  /\ 0 <= rect.left /\ rect.right <= screenshot.w
                  /\ 0 <= rect.top /\ rect.bottom <= screenshot.h]_vars

====
